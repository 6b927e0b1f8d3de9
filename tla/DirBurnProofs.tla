--------------------------- MODULE DirBurnProofs ---------------------------
(***************************************************************************)
(* Proofs about the directory burn and the per-file primitive under it,    *)
(* for any files, names, keys, crashes and edits: the primitive implements *)
(* Deletion though two programs use it at once, a listed name opens, the   *)
(* papers of a burn are true, and only what it listed dies.                *)
(***************************************************************************)
EXTENDS DirBurn, FiniteSetTheorems, WellFoundedInduction, TLAPS

USE FileBurnAssumption, DirBurnAssumption DEF Missing, Scrap

-----------------------------------------------------------------------------
(* The primitive, whoever calls it.                                         *)

Stages == Places \cup {"idle", "done", "failed", "register", "certify", "log", "reload", "forget"}
Entries == [Names -> Keys \cup {Missing}]
Calls == [at : Stages, op : {"none", "seal", "burn"}, name : Names \cup {NoName},
          key : Keys \cup {Missing}, escrow : BOOLEAN, reg : Entries]

PrimitiveTypeOK ==
  /\ disk \in [Places -> [Names -> Keys \cup {Missing, Scrap}]]
  /\ registry \in Entries
  /\ content \in Seq(Int) /\ Len(content) <= MaxKeys
  /\ certs \in SUBSET (Names \X Keys)
  /\ logged \in SUBSET Keys
  /\ call \in [Callers -> Calls]
  /\ raced \in BOOLEAN

\* What a call is doing, it does to a name and a key.
Stage(self) ==
  LET c == call[self] IN
  /\ c.op = "none" => c.at \in {"idle", "done", "failed"} /\ c.key = Missing
  /\ c.op = "seal" => c.at \in Places \cup {"register"}
  /\ c.op = "burn" => c.at \in Places \cup {"certify", "log", "reload", "forget"}
  /\ c.op # "none" => c.name \in Names /\ c.key \in Keys

\* Key k is on record for name n somewhere: on disk, in files.json, or in a program's memory.
Bears(n, k) ==
  \/ \E place \in Places : disk[place][n] = k
  \/ registry[n] = k
  \/ \E self \in Callers : \/ call[self].name = n /\ call[self].key = k
                           \/ call[self].reg[n] = k

\* A key that is on record was drawn, and is the key of one name.
KeysWereDrawn ==
  /\ \A n \in Names, k \in Keys : Bears(n, k) => k <= Len(content)
  /\ \A k \in Certified : k <= Len(content)
KeysHaveOneName ==
  \A n, m \in Names, k \in Keys : Bears(n, k) /\ Bears(m, k) => n = m

\* Nobody else knows the key of a seal before it is listed.
SealIsSecret(self) ==
  LET k == call[self].key IN
  call[self].op = "seal" =>
    /\ k \notin Certified
    /\ \A n \in Names : registry[n] # k
    /\ \A other \in Callers :
         /\ \A n \in Names : call[other].reg[n] # k
         /\ other # self => call[other].key # k

\* The copies a burn has passed are gone wherever they were, and are certified afterwards.
BurnIsThorough(self) ==
  LET k == call[self].key
      at == call[self].at IN
  call[self].op = "burn" =>
    /\ at # "filekeys" => \A n \in Names : disk["filekeys"][n] # k
    /\ at \notin {"filekeys", "escrow"} => \A n \in Names : disk["escrow"][n] # k
    /\ at \in {"log", "reload", "forget"} => k \in Certified

CallsAreSound ==
  \A self \in Callers : Stage(self) /\ SealIsSecret(self) /\ BurnIsThorough(self)

CertifiedIsGone == Certified \cap Live = {} /\ logged \subseteq Certified

PInv ==
  /\ PrimitiveTypeOK
  /\ KeysWereDrawn /\ KeysHaveOneName
  /\ CallsAreSound
  /\ CertifiedIsGone

\* A call that is over, or dies.
Drop(self, at) ==
  /\ at \in {"idle", "done", "failed"}
  /\ Finish(self, at)
  /\ UNCHANGED <<disk, registry, content, certs, logged, raced>>

\* The two programs work on names of their own.
OwnNames(self) == IF self = "dirburn" THEN BurnNames ELSE CliNames

\* What a program does with the primitive: one call at a time, unless it dies.
PrimitiveStep(self) ==
  \/ /\ Returned(self)
     /\ \E n \in OwnNames(self), data \in Int, escrow \in BOOLEAN : Seal(self, n, data, escrow)
  \/ Returned(self) /\ \E n \in OwnNames(self) : BeginBurn(self, n)
  \/ FileStep(self)
  \/ Drop(self, "idle") /\ (Returned(self) \/ crashes' # 0)

-----------------------------------------------------------------------------
(* The registry and the keys.                                               *)

NamesApart ==
  \A self \in Callers : call[self].op # "none" => call[self].name \in OwnNames(self)

\* What a call has done to its name so far.
Progress(self) ==
  LET n == call[self].name
      k == call[self].key
      at == call[self].at IN
  /\ call[self].op = "seal" =>
       /\ at \in {"filekeys", "escrow", "register"} => disk["files"][n] = k
       /\ at \in {"escrow", "register"} => disk["filekeys"][n] = k
       /\ ~raced => registry[n] = Missing
  /\ call[self].op = "burn" =>
       /\ at # "filekeys" => disk["filekeys"][n] \notin Keys
       /\ ~raced => registry[n] = k

RInv ==
  /\ NamesApart
  /\ \A self \in Callers : Progress(self)
  /\ RegistryMatchesKeys

-----------------------------------------------------------------------------
(* The walk.                                                                *)

Handling == {"read", "seal", "burn", "unlink"}
Lists == SUBSET (Paths \X Readable)

WalkTypeOK ==
  /\ tree \in [Paths -> Readable \cup {Missing}] /\ outside \in Readable
  /\ walk \in [at : Handling \cup {"idle", "next", "manifest", "verify"}, burn : Nat,
               todo : SUBSET Paths, entries : Lists, path : Paths \cup {0},
               version : Readable \cup {0}]
  /\ manifests \in SUBSET Lists /\ IsFiniteSet(manifests)
  /\ burns \in Nat /\ edits \in 0..MaxEdits /\ crashes \in Nat
  /\ standing \in BOOLEAN

\* The call of the directory burn follows its walk.
CallFollowsWalk ==
  /\ call["dirburn"].op = "seal" => walk.at = "seal"
  /\ call["dirburn"].op = "burn" => walk.at = "burn"
  /\ call["dirburn"].op # "none" => call["dirburn"].name = NameOf(walk.burn, walk.path)

\* The burn that runs has the last id, and takes up each path once.
InHand ==
  /\ walk.at # "idle" => walk.burn = burns /\ burns \in 1..MaxBurns
  /\ walk.at \in Handling =>
       /\ walk.path \in Paths /\ walk.path \notin walk.todo
       /\ walk.version \in Readable
       /\ \A e \in walk.entries : e[1] # walk.path
  /\ \A e \in walk.entries : e[1] \notin walk.todo

\* No name is on record before its file is sealed.
Unsealed(n) ==
  \/ n[1] > burns
  \/ n[1] = burns /\ (n[2] \in walk.todo \/ (walk.at = "read" /\ n[2] = walk.path))
NamesAreNew == \A n \in BurnNames, k \in Keys : Unsealed(n) => ~Bears(n, k)

\* What was sealed under the name at hand is the version that was read.
SealedAsRead ==
  walk.at \in {"seal", "burn"} =>
    \A k \in Keys : Bears(NameOf(walk.burn, walk.path), k) => content[k] = walk.version
CliSealsOthers == \A n \in CliNames, k \in Keys : Bears(n, k) => content[k] = 0

\* Versions are numbered as they are written.
Written == 1..(Beyond + edits)
VersionsAreWritten ==
  /\ \A p \in Paths : tree[p] \in Versions => tree[p] \in Written
  /\ outside \in Versions => outside \in Written
  /\ \A k \in DOMAIN content : content[k] \in Versions => content[k] \in Written
  /\ walk.version \in Versions => walk.version \in Written

LinkTypeOK == file \in [Paths -> Written] /\ linked \in [Paths -> Nat]

\* A path no link was made of or to is the only name of its file, and the only place of its
\* version.
NamedOnce ==
  /\ \A p, q \in Paths : p # q /\ file[p] = file[q] => p \notin NeverLinked
  /\ \A p \in NeverLinked : file[p] # Beyond
StoredOnce ==
  /\ \A p \in NeverLinked, q \in Paths : tree[p] = tree[q] /\ tree[p] \in Versions => p = q
  /\ \A p \in NeverLinked : tree[p] \in Versions => tree[p] # outside
  /\ walk.at \in Handling =>
       \A p \in NeverLinked : tree[p] = walk.version /\ tree[p] \in Versions => p = walk.path
LinksAreMarked == LinkTypeOK /\ NamedOnce /\ StoredOnce

\* What the burn would have refused at its start has come since.
LinksAreNew ==
  walk.at # "idle" =>
    /\ \A p, q \in Present :
         p # q /\ file[p] = file[q] => LinkedSince(p) \/ LinkedSince(q)
    /\ \A p \in soft \cap Present : LinkedSince(p)

\* A version that is about to be removed is certified.
RemovedAreCertified ==
  walk.at = "unlink" \/ (walk.at = "burn" /\ call["dirburn"].op = "none")
    => walk.version \in CertifiedVersions \cup {Scrap}

\* What a list of burned files says is true, and stays true.
ListIsTrue(list) ==
  /\ \A e \in list : e[2] # Scrap => /\ e[1] \in NeverLinked => tree[e[1]] # e[2]
                                     /\ e[2] \in CertifiedVersions
  /\ \A e, f \in list : e[1] = f[1] => e = f
  /\ Cardinality(Survivors(list)) <= edits
ListsAreTrue == ListIsTrue(walk.entries) /\ \A m \in manifests : ListIsTrue(m)

\* A burn that runs accounts for the certified file it is about to remove, one that died
\* left at most one.
Leftover == {p \in NeverLinked : tree[p] \in CertifiedVersions}
Running == walk.at \notin {"idle", "verify"}
Counted == Leftover \ (IF walk.at = "burn" THEN {walk.path} ELSE {})
LeftoversAreFew ==
  Cardinality(Counted) + Cardinality(manifests) + (IF Running THEN 1 ELSE 0) <= burns

GoneMeansEmpty == ~standing => \A p \in Paths : tree[p] = Missing

-----------------------------------------------------------------------------
LEMMA PrimitiveInit == FInit => PInv
<1> SUFFICES ASSUME FInit PROVE PInv
  OBVIOUS
<1>1. /\ \A place \in Places, n \in Names : disk[place][n] = Missing
      /\ \A n \in Names : registry[n] = Missing
      /\ content = << >> /\ certs = {} /\ logged = {}
      /\ \A self \in Callers : call[self] = NoCall
  BY DEF FInit
<1>2. NoCall \in Calls
  BY DEF NoCall, Calls, Stages, Entries
<1>3. PrimitiveTypeOK
  <2>1. content \in Seq(Int) /\ Len(content) <= MaxKeys
    BY <1>1
  <2>2. disk \in [Places -> [Names -> Keys \cup {Missing, Scrap}]] /\ registry \in Entries
    BY DEF FInit, Entries
  <2>3. call \in [Callers -> Calls]
    BY <1>2 DEF FInit
  <2> QED
    BY <2>1, <2>2, <2>3 DEF FInit, PrimitiveTypeOK
<1>4. Certified = {} /\ \A n \in Names, k \in Keys : ~Bears(n, k)
  <2>1. Certified = {}
    BY <1>1 DEF Certified
  <2>2. Missing \notin Keys
    BY DEF Keys
  <2>3. \A self \in Callers, n \in Names : call[self].key = Missing /\ call[self].reg[n] = Missing
    BY <1>1 DEF NoCall
  <2>4. ASSUME NEW n \in Names, NEW k \in Keys PROVE ~Bears(n, k)
    <3>1. k # Missing
      BY <2>2
    <3> QED
      BY <1>1, <2>3, <3>1 DEF Bears
  <2> QED
    BY <2>1, <2>4
<1>5. CallsAreSound
  <2>1. ASSUME NEW self \in Callers
        PROVE  call[self].op = "none" /\ call[self].at = "idle" /\ call[self].key = Missing
    BY <1>1 DEF NoCall
  <2> QED
    BY <2>1 DEF CallsAreSound, Stage, SealIsSecret, BurnIsThorough
<1> QED
  BY <1>1, <1>3, <1>4, <1>5 DEF PInv, KeysWereDrawn, KeysHaveOneName, CertifiedIsGone

\* What can be read is borne by a name; a call bears its key and its copy of the registry.
LEMMA BearsFacts ==
  /\ \A place \in Places, n \in Names, k \in Keys : disk[place][n] = k => Bears(n, k)
  /\ \A n \in Names, k \in Keys : registry[n] = k => Bears(n, k)
  /\ \A self \in Callers, n \in Names, k \in Keys : call[self].reg[n] = k => Bears(n, k)
  /\ \A self \in Callers, n \in Names, k \in Keys :
        call[self].name = n /\ call[self].key = k => Bears(n, k)
BY DEF Bears

LEMMA StoreWrites ==
  ASSUME PrimitiveTypeOK, NEW place \in Places, NEW n \in Names,
         NEW value \in Keys \cup {Missing, Scrap}, disk' = [disk EXCEPT ![place][n] = value]
  PROVE  /\ disk' \in [Places -> [Names -> Keys \cup {Missing, Scrap}]]
         /\ disk'[place][n] = value
         /\ \A q \in Places, m \in Names : (q # place \/ m # n) => disk'[q][m] = disk[q][m]
BY DEF PrimitiveTypeOK

LEMMA CallChanges ==
  ASSUME PrimitiveTypeOK, NEW self \in Callers, NEW c,
         call' = [call EXCEPT ![self] = c]
  PROVE  /\ call'[self] = c
         /\ \A q \in Callers : q # self => call'[q] = call[q]
         /\ c \in Calls => call' \in [Callers -> Calls]
BY DEF PrimitiveTypeOK

LEMMA GotoMoves ==
  ASSUME PrimitiveTypeOK, NEW self \in Callers, NEW at \in Stages, Goto(self, at)
  PROVE  /\ call' \in [Callers -> Calls]
         /\ call'[self].at = at
         /\ call'[self].op = call[self].op /\ call'[self].name = call[self].name
         /\ call'[self].key = call[self].key /\ call'[self].escrow = call[self].escrow
         /\ call'[self].reg = call[self].reg
         /\ \A q \in Callers : q # self => call'[q] = call[q]
<1>1. call[self] \in Calls
  BY DEF PrimitiveTypeOK
<1>2. call' = [call EXCEPT ![self] = [call[self] EXCEPT !.at = at]]
  BY DEF Goto
<1>3. [call[self] EXCEPT !.at = at] \in Calls
  BY <1>1 DEF Calls
<1> QED
  BY <1>1, <1>2, <1>3, CallChanges DEF Calls

LEMMA FinishEnds ==
  ASSUME PrimitiveTypeOK, NEW self \in Callers, NEW at \in {"idle", "done", "failed"},
         Finish(self, at)
  PROVE  /\ call' \in [Callers -> Calls]
         /\ call'[self].at = at /\ call'[self].op = "none"
         /\ call'[self].key = Missing /\ \A n \in Names : call'[self].reg[n] = Missing
         /\ \A q \in Callers : q # self => call'[q] = call[q]
<1>1. call' = [call EXCEPT ![self] = [NoCall EXCEPT !.at = at]]
  BY DEF Finish
<1>2. [NoCall EXCEPT !.at = at] \in Calls
  BY DEF NoCall, Calls, Stages, Entries
<1> QED
  BY <1>1, <1>2, CallChanges DEF NoCall

LEMMA StageFacts ==
  ASSUME PInv, NEW self \in Callers
  PROVE  /\ call[self].op \in {"none", "seal", "burn"}
         /\ call[self].at = "register" => call[self].op = "seal"
         /\ call[self].at \in {"certify", "log", "reload", "forget"} => call[self].op = "burn"
         /\ call[self].op # "none" => call[self].name \in Names /\ call[self].key \in Keys
         /\ Returned(self) <=> call[self].op = "none"
<1>1. Stage(self) /\ call[self] \in Calls
  BY DEF PInv, CallsAreSound, PrimitiveTypeOK
<1>2. call[self].op \in {"none", "seal", "burn"}
  BY <1>1 DEF Calls
<1> QED
  BY <1>1, <1>2 DEF Stage, Returned, Places, KeyPlaces

\* A step after which no name bears a key it did not bear before.
LEMMA NamesAreKept ==
  ASSUME PInv, content' = content,
         \A k \in Certified' : k \in Certified \/ (\E n \in Names : k \in Keys /\ Bears(n, k)),
         \A n \in Names, k \in Keys : Bears(n, k)' => Bears(n, k)
  PROVE  KeysWereDrawn' /\ KeysHaveOneName'
BY DEF PInv, KeysWereDrawn, KeysHaveOneName

-----------------------------------------------------------------------------
(* Each step of the primitive keeps PInv.                                   *)

\* Drawing a key: nobody knows it but the seal.
LEMMA SealKeeps ==
  ASSUME PInv, NEW self \in Callers, NEW n \in Names, NEW data \in Int, NEW escrow \in BOOLEAN,
         Seal(self, n, data, escrow)
  PROVE  /\ PInv'
         /\ \A m \in Names, k \in Keys :
              Bears(m, k)' => Bears(m, k) \/ (m = n /\ k = Len(content) + 1)
<1>1. PICK new : new = Len(content) + 1
  OBVIOUS
<1>2. /\ new \in Keys /\ Len(content) \in Nat /\ Len(content') = new
      /\ content' \in Seq(Int) /\ Len(content') <= MaxKeys
  BY <1>1 DEF Seal, PInv, PrimitiveTypeOK, Keys
<1>3. PICK c : c = [at |-> "files", op |-> "seal", name |-> n, key |-> new,
                    escrow |-> escrow, reg |-> registry]
  OBVIOUS
<1>4. c \in Calls
  BY <1>2, <1>3 DEF Calls, Stages, Places, PInv, PrimitiveTypeOK
<1>5. /\ call' \in [Callers -> Calls]
      /\ call'[self] = c /\ \A q \in Callers : q # self => call'[q] = call[q]
  <2>1. call' = [call EXCEPT ![self] = c]
    BY <1>1, <1>3 DEF Seal
  <2> QED
    BY <1>4, <2>1, CallChanges DEF PInv
<1>6. UNCHANGED <<disk, registry, certs, logged, raced, Certified, Live>>
  BY DEF Seal, Certified, Live
<1>7. PrimitiveTypeOK'
  BY <1>2, <1>5, <1>6 DEF PInv, PrimitiveTypeOK
<1>8. \A m \in Names, k \in Keys : Bears(m, k)' => Bears(m, k) \/ (m = n /\ k = new)
  BY <1>3, <1>5, <1>6 DEF Bears
<1>9. \A m \in Names : ~Bears(m, new)
  BY <1>1, <1>2 DEF PInv, KeysWereDrawn
<1>10. \A k \in Keys : k <= Len(content) => k <= new /\ k # new
  BY <1>1, <1>2 DEF Keys
<1>11. Certified \subseteq Keys
  BY DEF PInv, PrimitiveTypeOK, Certified
<1>12. KeysWereDrawn'
  <2>1. \A m \in Names, k \in Keys : Bears(m, k)' => k <= new
    BY <1>1, <1>2, <1>8, <1>10 DEF PInv, KeysWereDrawn
  <2>2. \A k \in Certified' : k <= new
    BY <1>6, <1>10, <1>11 DEF PInv, KeysWereDrawn
  <2> QED
    BY <1>2, <2>1, <2>2 DEF KeysWereDrawn
<1>13. KeysHaveOneName'
  BY <1>8, <1>9 DEF PInv, KeysHaveOneName
<1>14. ASSUME NEW q \in Callers PROVE (Stage(q) /\ SealIsSecret(q) /\ BurnIsThorough(q))'
  <2>1. CASE q = self
    <3>0. /\ call'[q].op = "seal" /\ call'[q].at = "files"
          /\ call'[q].name = n /\ call'[q].key = new
      BY <1>3, <1>5, <2>1
    <3>1. Stage(q)' /\ BurnIsThorough(q)'
      BY <1>2, <3>0 DEF Stage, BurnIsThorough, Places
    <3>2. new \notin Certified
      BY <1>10, <1>11 DEF PInv, KeysWereDrawn
    <3>3. /\ \A m \in Names : registry[m] # new
          /\ \A other \in Callers : \A m \in Names : call[other].reg[m] # new
      BY <1>2, <1>9, BearsFacts
    <3>4. \A other \in Callers : other # self => call[other].key # new
      <4>1. ASSUME NEW other \in Callers, call[other].key = new PROVE FALSE
        <5>1. Stage(other)
          BY DEF PInv, CallsAreSound
        <5>2. call[other].key # Missing
          BY <1>1, <1>2, <4>1
        <5>3. call[other].name \in Names
          BY <5>1, <5>2 DEF Stage, PInv, PrimitiveTypeOK, Calls
        <5> QED
          BY <1>2, <1>9, <4>1, <5>3, BearsFacts
      <4> QED
        BY <4>1
    <3> QED
      BY <1>3, <1>5, <1>6, <2>1, <3>1, <3>2, <3>3, <3>4 DEF SealIsSecret
  <2>2. CASE q # self
    <3>1. call'[q] = call[q] /\ Stage(q) /\ SealIsSecret(q) /\ BurnIsThorough(q)
      BY <1>5, <2>2 DEF PInv, CallsAreSound
    <3>2. Stage(q)' /\ BurnIsThorough(q)'
      BY <1>6, <3>1 DEF Stage, BurnIsThorough
    <3>3. call[q].op = "seal" => call[q].key # new
      BY <1>2, <1>9, <3>1, BearsFacts DEF Stage
    <3> QED
      BY <1>3, <1>5, <1>6, <3>1, <3>2, <3>3 DEF SealIsSecret
  <2> QED
    BY <2>1, <2>2
<1>15. CertifiedIsGone'
  BY <1>6 DEF PInv, CertifiedIsGone
<1> QED
  BY <1>1, <1>7, <1>8, <1>12, <1>13, <1>14, <1>15 DEF PInv, CallsAreSound

\* What a caller knows for a name: its own key, or what it or files.json lists.
KnownOf(self, m) ==
  {Missing, call[self].reg[m], registry[m]}
    \cup (IF m = call[self].name THEN {call[self].key} ELSE {})

\* A step that writes what its caller knows, and draws no key, tells nobody else's secret
\* and touches nobody else's burn.
LEMMA CallerKeeps ==
  ASSUME PInv, NEW self \in Callers, PrimitiveTypeOK', content' = content,
         \A q \in Callers : q # self => call'[q] = call[q],
         \A m \in Names : registry'[m] \in KnownOf(self, m),
         \A m \in Names : call'[self].reg[m] \in KnownOf(self, m),
         call'[self].key \in Keys =>
           call'[self].name \in Names /\ call'[self].key \in KnownOf(self, call'[self].name),
         Certified \subseteq Certified',
         \A k \in Certified' : k \in Certified \/ (k = call[self].key /\ call[self].name \in Names),
         \A place \in Places, m \in Names, k \in Keys :
           disk'[place][m] = k =>
             \/ disk[place][m] = k
             \/ call[self].op = "seal" /\ m = call[self].name /\ k = call[self].key
  PROVE  /\ KeysWereDrawn' /\ KeysHaveOneName'
         /\ \A m \in Names, k \in Keys : Bears(m, k)' => Bears(m, k)
         /\ \A q \in Callers : q # self => (Stage(q) /\ SealIsSecret(q) /\ BurnIsThorough(q))'
<1>0. Missing \notin Keys
  BY DEF Keys
<1>1. ASSUME NEW m \in Names, NEW k \in Keys, k \in KnownOf(self, m) PROVE Bears(m, k)
  <2>1. k # Missing
    BY <1>0
  <2> QED
    BY <1>1, <2>1, BearsFacts DEF KnownOf
<1>2. ASSUME NEW m \in Names, NEW k \in Keys, Bears(m, k)' PROVE Bears(m, k)
  <2>1. CASE \E place \in Places : disk'[place][m] = k
    BY <2>1, BearsFacts
  <2>2. CASE registry'[m] = k
    BY <1>1, <2>2
  <2>3. ASSUME NEW q \in Callers,
                 (call'[q].name = m /\ call'[q].key = k) \/ call'[q].reg[m] = k
        PROVE  Bears(m, k)
    <3>1. CASE q = self
      BY <1>1, <2>3, <3>1
    <3>2. CASE q # self
      BY <2>3, <3>2, BearsFacts
    <3> QED
      BY <3>1, <3>2
  <2> QED
    BY <1>2, <2>1, <2>2, <2>3 DEF Bears
<1>3. Certified' \subseteq Keys
  BY DEF PrimitiveTypeOK, Certified
<1>4. KeysWereDrawn' /\ KeysHaveOneName'
  <2>1. \A k \in Certified' : k \in Certified \/ (\E n \in Names : k \in Keys /\ Bears(n, k))
    BY <1>3, BearsFacts
  <2> QED
    BY <1>2, <2>1, NamesAreKept
<1>5. ASSUME NEW q \in Callers, q # self PROVE (Stage(q) /\ SealIsSecret(q) /\ BurnIsThorough(q))'
  <2>1. call'[q] = call[q] /\ Stage(q) /\ SealIsSecret(q) /\ BurnIsThorough(q)
    BY <1>5 DEF PInv, CallsAreSound
  <2>2. Stage(q)'
    BY <2>1 DEF Stage
  <2>3. ASSUME call[q].op = "seal" PROVE SealIsSecret(q)'
    <3>1. PICK k \in Keys : k = call[q].key
      BY <2>1, <2>3 DEF Stage
    <3>2. /\ k \notin Certified
          /\ \A m \in Names : registry[m] # k
          /\ \A other \in Callers : \A m \in Names : call[other].reg[m] # k
          /\ \A other \in Callers : other # q => call[other].key # k
      BY <2>1, <2>3, <3>1 DEF SealIsSecret
    <3>3. k # Missing
      BY <1>0
    <3>4. \A m \in Names : k \notin KnownOf(self, m)
      BY <1>5, <3>2, <3>3 DEF KnownOf
    <3>5. k \notin Certified' /\ \A m \in Names : registry'[m] # k
      BY <1>5, <3>2, <3>4
    <3>6. /\ \A m \in Names : call'[self].reg[m] # k
          /\ call'[self].key # k
      BY <3>4
    <3>7. \A other \in Callers : /\ \A m \in Names : call'[other].reg[m] # k
                                 /\ other # q => call'[other].key # k
      BY <3>2, <3>6
    <3> QED
      BY <2>1, <3>1, <3>5, <3>7 DEF SealIsSecret
  <2>4. ASSUME call[q].op = "burn" PROVE BurnIsThorough(q)'
    <3>1. PICK k \in Keys : k = call[q].key
      BY <2>1, <2>4 DEF Stage
    <3>2. call[self].op = "seal" => call[self].key # k
      BY <1>5, <3>1 DEF PInv, CallsAreSound, SealIsSecret
    <3>3. \A place \in Places, m \in Names : disk[place][m] # k => disk'[place][m] # k
      BY <3>2
    <3> QED
      BY <2>1, <3>1, <3>3 DEF BurnIsThorough, Places, KeyPlaces
  <2>5. call[q].op # "seal" => SealIsSecret(q)'
    BY <2>1 DEF SealIsSecret
  <2>6. call[q].op # "burn" => BurnIsThorough(q)'
    BY <2>1 DEF BurnIsThorough
  <2> QED
    BY <2>2, <2>3, <2>4, <2>5, <2>6
<1> QED
  BY <1>2, <1>4, <1>5

LEMMA WriteSealedKeeps ==
  ASSUME PInv, NEW self \in Callers, WriteSealed(self)
  PROVE  PInv' /\ \A m \in Names, k \in Keys : Bears(m, k)' => Bears(m, k)
<1>1. PICK n \in Names, k \in Keys : n = call[self].name /\ k = call[self].key
  BY DEF WriteSealed, PInv, CallsAreSound, Stage
<1>2. PICK at \in Places : at = call[self].at
  BY DEF WriteSealed
<1>3. AfterWrite(self) \in Stages /\ AfterWrite(self) \in {"filekeys", "escrow", "register"}
  BY <1>2 DEF AfterWrite, Places, KeyPlaces, Stages
<1>4. /\ call[self].op = "seal" /\ Store(self, at, k) /\ Goto(self, AfterWrite(self))
      /\ UNCHANGED <<registry, content, certs, logged, raced, Certified>>
  BY <1>1, <1>2 DEF WriteSealed, Certified
<1>5. /\ disk' \in [Places -> [Names -> Keys \cup {Missing, Scrap}]]
      /\ disk'[at][n] = k
      /\ \A q \in Places, m \in Names : (q # at \/ m # n) => disk'[q][m] = disk[q][m]
  <2>1. k \in Keys \cup {Missing, Scrap} /\ disk' = [disk EXCEPT ![at][n] = k]
    BY <1>1, <1>4 DEF Store
  <2> QED
    BY ZenonT(60), <2>1, StoreWrites DEF PInv
<1>6. /\ call' \in [Callers -> Calls]
      /\ call'[self].at = AfterWrite(self) /\ call'[self].op = "seal"
      /\ call'[self].name = n /\ call'[self].key = k
      /\ call'[self].reg = call[self].reg
      /\ \A q \in Callers : q # self => call'[q] = call[q]
  BY <1>1, <1>3, <1>4, GotoMoves DEF PInv
<1>7. PrimitiveTypeOK'
  BY <1>4, <1>5, <1>6 DEF PInv, PrimitiveTypeOK
<1>8. /\ KeysWereDrawn' /\ KeysHaveOneName'
      /\ \A m \in Names, x \in Keys : Bears(m, x)' => Bears(m, x)
      /\ \A q \in Callers : q # self => (Stage(q) /\ SealIsSecret(q) /\ BurnIsThorough(q))'
  <2>1. /\ \A m \in Names : registry'[m] \in KnownOf(self, m) /\ call'[self].reg[m] \in KnownOf(self, m)
        /\ call'[self].name \in Names /\ call'[self].key \in KnownOf(self, call'[self].name)
    BY <1>1, <1>4, <1>6 DEF KnownOf
  <2>2. \A place \in Places, m \in Names, x \in Keys :
          disk'[place][m] = x =>
             \/ disk[place][m] = x
             \/ call[self].op = "seal" /\ m = call[self].name /\ x = call[self].key
    BY <1>1, <1>4, <1>5
  <2> QED
    BY <1>4, <1>6, <1>7, <2>1, <2>2, CallerKeeps
<1>9. SealIsSecret(self)
  BY DEF PInv, CallsAreSound
<1>10. (Stage(self) /\ SealIsSecret(self) /\ BurnIsThorough(self))'
  <2>1. Stage(self)' /\ BurnIsThorough(self)'
    BY <1>3, <1>6 DEF Stage, BurnIsThorough, Places, KeyPlaces
  <2>2. /\ k \notin Certified
        /\ \A m \in Names : registry[m] # k
        /\ \A other \in Callers : /\ \A m \in Names : call[other].reg[m] # k
                                  /\ other # self => call[other].key # k
    BY <1>1, <1>4, <1>9 DEF SealIsSecret
  <2>3. \A other \in Callers : /\ \A m \in Names : call'[other].reg[m] # k
                               /\ other # self => call'[other].key # k
    BY <1>6, <2>2
  <2> QED
    BY <1>4, <1>6, <2>1, <2>2, <2>3 DEF SealIsSecret
<1>11. CertifiedIsGone'
  <2>1. Live' \subseteq Live \cup {k}
    BY <1>5 DEF Live, Places
  <2>2. k \notin Certified
    BY <1>1, <1>4, <1>9 DEF SealIsSecret
  <2> QED
    BY <1>4, <2>1, <2>2 DEF PInv, CertifiedIsGone
<1> QED
  BY <1>7, <1>8, <1>10, <1>11 DEF PInv, CallsAreSound

\* register and the end of a burn replace files.json by the copy with one entry changed.
LEMMA SaveRegistryKnows ==
  ASSUME PInv, NEW self \in Callers, call[self].name \in Names, call[self].key \in Keys,
         NEW entry \in {Missing, call[self].key}, SaveRegistry(self, entry)
  PROVE  /\ registry' \in Entries /\ raced' \in BOOLEAN
         /\ \A m \in Names : registry'[m] \in KnownOf(self, m)
         /\ \A m \in Names :
              registry'[m] = IF m = call[self].name THEN entry ELSE call[self].reg[m]
<1>1. call[self].reg \in Entries
  BY DEF PInv, PrimitiveTypeOK, Calls
<1>2. registry' \in Entries
  BY <1>1 DEF SaveRegistry, Entries
<1>3. raced' \in BOOLEAN
  BY DEF SaveRegistry, PInv, PrimitiveTypeOK
<1>4. \A m \in Names :
        registry'[m] = IF m = call[self].name THEN entry ELSE call[self].reg[m]
  BY <1>1 DEF SaveRegistry, Entries
<1> QED
  BY <1>2, <1>3, <1>4 DEF KnownOf

LEMMA FinishKeeps ==
  ASSUME PInv, NEW self \in Callers, NEW at \in {"idle", "done", "failed"}, Finish(self, at),
         UNCHANGED <<disk, content, certs, logged>>,
         registry' \in Entries, raced' \in BOOLEAN,
         \A m \in Names : registry'[m] \in KnownOf(self, m)
  PROVE  PInv' /\ \A m \in Names, k \in Keys : Bears(m, k)' => Bears(m, k)
<1>1. /\ call' \in [Callers -> Calls]
      /\ call'[self].at = at /\ call'[self].op = "none"
      /\ call'[self].key = Missing /\ \A n \in Names : call'[self].reg[n] = Missing
      /\ \A q \in Callers : q # self => call'[q] = call[q]
  BY FinishEnds DEF PInv
<1>2. PrimitiveTypeOK'
  BY <1>1 DEF PInv, PrimitiveTypeOK
<1>3. UNCHANGED <<Certified, Live>>
  BY DEF Certified, Live
<1>4. call'[self].key \notin Keys
  BY <1>1 DEF Keys
<1>5. \A m \in Names : call'[self].reg[m] \in KnownOf(self, m)
  BY <1>1 DEF KnownOf
<1>6. /\ KeysWereDrawn' /\ KeysHaveOneName'
      /\ \A m \in Names, x \in Keys : Bears(m, x)' => Bears(m, x)
      /\ \A q \in Callers : q # self => (Stage(q) /\ SealIsSecret(q) /\ BurnIsThorough(q))'
  BY <1>1, <1>2, <1>3, <1>4, <1>5, CallerKeeps
<1>7. (Stage(self) /\ SealIsSecret(self) /\ BurnIsThorough(self))'
  BY <1>1 DEF Stage, SealIsSecret, BurnIsThorough
<1>8. CertifiedIsGone'
  BY <1>3 DEF PInv, CertifiedIsGone
<1> QED
  BY <1>2, <1>6, <1>7, <1>8 DEF PInv, CallsAreSound

LEMMA BeginBurnKeeps ==
  ASSUME PInv, NEW self \in Callers, NEW n \in Names, BeginBurn(self, n)
  PROVE  PInv' /\ \A m \in Names, k \in Keys : Bears(m, k)' => Bears(m, k)
<1>1. PICK k \in Keys : k = registry[n]
  BY DEF BeginBurn, PInv, PrimitiveTypeOK, Entries
<1>2. PICK c : c = [NoCall EXCEPT !.at = "filekeys", !.op = "burn", !.name = n, !.key = k]
  OBVIOUS
<1>3. /\ c \in Calls /\ c.at = "filekeys" /\ c.op = "burn" /\ c.name = n /\ c.key = k
      /\ \A m \in Names : c.reg[m] = Missing
  BY <1>2 DEF NoCall, Calls, Stages, Places, KeyPlaces, Entries
<1>4. /\ call' \in [Callers -> Calls] /\ call'[self] = c
      /\ \A q \in Callers : q # self => call'[q] = call[q]
  <2>1. call' = [call EXCEPT ![self] = c]
    BY <1>1, <1>2 DEF BeginBurn
  <2> QED
    BY <1>3, <2>1, CallChanges DEF PInv
<1>5. UNCHANGED <<disk, registry, content, certs, logged, raced, Certified, Live>>
  BY DEF BeginBurn, Certified, Live
<1>6. PrimitiveTypeOK'
  BY <1>4, <1>5 DEF PInv, PrimitiveTypeOK
<1>7. /\ KeysWereDrawn' /\ KeysHaveOneName'
      /\ \A m \in Names, x \in Keys : Bears(m, x)' => Bears(m, x)
      /\ \A q \in Callers : q # self => (Stage(q) /\ SealIsSecret(q) /\ BurnIsThorough(q))'
  <2>1. /\ \A m \in Names : registry'[m] \in KnownOf(self, m) /\ call'[self].reg[m] \in KnownOf(self, m)
        /\ call'[self].name \in Names /\ call'[self].key \in KnownOf(self, call'[self].name)
    BY <1>1, <1>3, <1>4, <1>5 DEF KnownOf
  <2> QED
    BY <1>4, <1>5, <1>6, <2>1, CallerKeeps
<1>8. (Stage(self) /\ SealIsSecret(self) /\ BurnIsThorough(self))'
  BY <1>3, <1>4 DEF Stage, SealIsSecret, BurnIsThorough, Places, KeyPlaces
<1>9. CertifiedIsGone'
  BY <1>5 DEF PInv, CertifiedIsGone
<1> QED
  BY <1>6, <1>7, <1>8, <1>9 DEF PInv, CallsAreSound

\* A key is under no other name than that of the call that knows it.
LEMMA KeyIsNowhereElse ==
  ASSUME PInv, NEW self \in Callers, call[self].name \in Names, call[self].key \in Keys,
         NEW place \in Places, disk[place][call[self].name] # call[self].key
  PROVE  \A m \in Names : disk[place][m] # call[self].key
BY BearsFacts DEF PInv, KeysHaveOneName

\* One step of a burn at one place: it only takes keys away.
LEMMA BurnStepKeeps ==
  ASSUME PInv, NEW self \in Callers, SkipMissing(self) \/ Overwrite(self) \/ Unlink(self)
  PROVE  /\ PInv' /\ \A m \in Names, k \in Keys : Bears(m, k)' => Bears(m, k)
<1>1. PICK n \in Names, k \in Keys : n = call[self].name /\ k = call[self].key
  BY DEF SkipMissing, Overwrite, Unlink, Burning, PInv, CallsAreSound, Stage
<1>2. PICK at \in Places : at = call[self].at
  BY DEF SkipMissing, Overwrite, Unlink, Burning
<1>3. call[self].op = "burn" /\ BurnIsThorough(self)
  BY DEF SkipMissing, Overwrite, Unlink, Burning, PInv, CallsAreSound
<1>4. UNCHANGED <<registry, content, certs, logged, raced, Certified>>
  BY DEF SkipMissing, Overwrite, Unlink, Certified
<1>5. Missing \notin Keys /\ Scrap \notin Keys
  BY DEF Keys
<1>6. PICK gone \in {Missing, Scrap, disk[at][n]} :
        /\ disk' \in [Places -> [Names -> Keys \cup {Missing, Scrap}]]
        /\ disk'[at][n] = gone
        /\ \A q \in Places, m \in Names : (q # at \/ m # n) => disk'[q][m] = disk[q][m]
        /\ gone # Missing => call' = call
        /\ gone = Missing => call' = call \/ Goto(self, AfterBurn(self))
  <2>1. CASE SkipMissing(self)
    BY <1>1, <1>2, <2>1 DEF SkipMissing, Stored, PInv, PrimitiveTypeOK
  <2>2. CASE Overwrite(self)
    <3>1. Store(self, at, Scrap) /\ call' = call
      BY <1>2, <2>2 DEF Overwrite
    <3>2. PICK scrap \in Keys \cup {Missing, Scrap} : scrap = Scrap /\ scrap # Missing
      OBVIOUS
    <3>3. disk' = [disk EXCEPT ![at][n] = scrap]
      BY <1>1, <3>1, <3>2 DEF Store
    <3> QED
      BY ZenonT(60), <3>1, <3>2, <3>3, StoreWrites DEF PInv
  <2>3. CASE Unlink(self)
    <3>1. Store(self, at, Missing) /\ Goto(self, AfterBurn(self))
      BY <1>2, <2>3 DEF Unlink
    <3>2. PICK none \in Keys \cup {Missing, Scrap} : none = Missing
      OBVIOUS
    <3>3. disk' = [disk EXCEPT ![at][n] = none]
      BY <1>1, <3>1, <3>2 DEF Store
    <3> QED
      BY ZenonT(60), <3>1, <3>2, <3>3, StoreWrites DEF PInv
  <2> QED
    BY <2>1, <2>2, <2>3
<1>7. \A q \in Places, m \in Names, x \in Keys : disk'[q][m] = x => disk[q][m] = x
  BY <1>5, <1>6
<1>8. /\ AfterBurn(self) \in Stages /\ AfterBurn(self) \in {"escrow", "files", "certify"}
      /\ AfterBurn(self) = "escrow" => at = "filekeys"
      /\ AfterBurn(self) # "escrow" => at \in {"escrow", "files"}
  BY <1>2 DEF AfterBurn, Places, KeyPlaces, Stages
<1>9. /\ call' \in [Callers -> Calls]
      /\ call'[self].op = "burn" /\ call'[self].name = n /\ call'[self].key = k
      /\ call'[self].reg = call[self].reg
      /\ \A q \in Callers : q # self => call'[q] = call[q]
      /\ call'[self].at = at \/ (call'[self].at = AfterBurn(self) /\ disk'[at][n] = Missing)
  <2>1. CASE call' = call
    BY <1>1, <1>2, <1>3, <2>1 DEF PInv, PrimitiveTypeOK
  <2>2. CASE Goto(self, AfterBurn(self)) /\ gone = Missing
    BY <1>1, <1>3, <1>6, <1>8, <2>2, GotoMoves DEF PInv
  <2> QED
    BY <1>6, <2>1, <2>2
<1>10. PrimitiveTypeOK'
  BY <1>4, <1>6, <1>9 DEF PInv, PrimitiveTypeOK
<1>11. /\ KeysWereDrawn' /\ KeysHaveOneName'
       /\ \A m \in Names, x \in Keys : Bears(m, x)' => Bears(m, x)
       /\ \A q \in Callers : q # self => (Stage(q) /\ SealIsSecret(q) /\ BurnIsThorough(q))'
  <2>1. /\ \A m \in Names : registry'[m] \in KnownOf(self, m) /\ call'[self].reg[m] \in KnownOf(self, m)
        /\ call'[self].name \in Names /\ call'[self].key \in KnownOf(self, call'[self].name)
    BY <1>1, <1>4, <1>9 DEF KnownOf
  <2> QED
    BY <1>4, <1>7, <1>9, <1>10, <2>1, CallerKeeps
<1>12. (Stage(self) /\ SealIsSecret(self) /\ BurnIsThorough(self))'
  <2>1. Stage(self)' /\ SealIsSecret(self)'
    BY <1>2, <1>8, <1>9 DEF Stage, SealIsSecret, Places, KeyPlaces
  <2>2. /\ at # "filekeys" => \A m \in Names : disk["filekeys"][m] # k
        /\ at \notin {"filekeys", "escrow"} => \A m \in Names : disk["escrow"][m] # k
    BY <1>1, <1>2, <1>3 DEF BurnIsThorough
  <2>3. \A q \in Places : (\A m \in Names : disk[q][m] # k) => (\A m \in Names : disk'[q][m] # k)
    BY <1>7
  <2>4. disk'[at][n] = Missing => \A m \in Names : disk'[at][m] # k
    <3>1. ASSUME disk'[at][n] = Missing, NEW m \in Names, disk'[at][m] = k PROVE FALSE
      <4>1. m # n /\ disk[at][m] = k
        BY <1>5, <1>7, <3>1
      <4> QED
        BY <1>1, <4>1, BearsFacts DEF PInv, KeysHaveOneName
    <3> QED
      BY <3>1
  <2>5. {"filekeys", "escrow", "files"} = Places
    BY DEF Places, KeyPlaces
  <2>6. PICK next : next = call'[self].at
    OBVIOUS
  <2>7. next \in {"filekeys", "escrow", "files", "certify"}
    BY <1>2, <1>8, <1>9, <2>5, <2>6
  <2>8. next # "filekeys" => \A m \in Names : disk'["filekeys"][m] # k
    BY <1>2, <1>8, <1>9, <2>2, <2>3, <2>4, <2>5, <2>6
  <2>9. next \notin {"filekeys", "escrow"} => \A m \in Names : disk'["escrow"][m] # k
    BY <1>2, <1>8, <1>9, <2>2, <2>3, <2>4, <2>5, <2>6
  <2>10. BurnIsThorough(self)'
    BY <1>9, <2>6, <2>7, <2>8, <2>9 DEF BurnIsThorough
  <2> QED
    BY <2>1, <2>10
<1>13. CertifiedIsGone'
  <2>1. Live' \subseteq Live
    BY <1>7 DEF Live, Places
  <2> QED
    BY <1>4, <2>1 DEF PInv, CertifiedIsGone
<1> QED
  BY <1>10, <1>11, <1>12, <1>13 DEF PInv, CallsAreSound

\* Certify and LogBurn, and the reload that found the entry: the disk stays as it is.
LEMMA PapersKeep ==
  ASSUME PInv, NEW self \in Callers, Certify(self) \/ LogBurn(self)
  PROVE  PInv' /\ \A m \in Names, k \in Keys : Bears(m, k)' => Bears(m, k)
<1>0. PICK at \in {"log", "reload"} : Goto(self, at) /\ (at = "log" <=> Certify(self))
  BY DEF Certify, LogBurn
<1>1. /\ call[self].op = "burn" /\ BurnIsThorough(self)
      /\ call[self].at = IF at = "log" THEN "certify" ELSE "log"
  <2>1. call[self].at = IF at = "log" THEN "certify" ELSE "log"
    BY <1>0 DEF Certify, LogBurn
  <2> QED
    BY <2>1, StageFacts DEF PInv, CallsAreSound
<1>2. PICK n \in Names, k \in Keys : n = call[self].name /\ k = call[self].key
  BY <1>1 DEF PInv, CallsAreSound, Stage
<1>3. /\ UNCHANGED <<disk, registry, content, raced, Live>>
      /\ certs' \in SUBSET (Names \X Keys) /\ logged' \subseteq logged \cup {k}
      /\ Certified \subseteq Certified' /\ Certified' \subseteq Certified \cup {k}
      /\ at = "log" => k \in Certified' /\ logged' = logged
      /\ at = "reload" => Certified' = Certified
  <2>1. CASE Certify(self)
    <3>1. certs' = certs \cup {<<n, k>>} /\ UNCHANGED <<disk, registry, content, raced, logged>>
      BY <1>2, <2>1 DEF Certify
    <3>2. Certified' = Certified \cup {k}
      <4>1. ASSUME NEW x \in Certified' PROVE x \in Certified \cup {k}
        <5>1. PICK c \in certs \cup {<<n, k>>} : x = c[2]
          BY <3>1 DEF Certified
        <5> QED
          BY <5>1 DEF Certified
      <4>2. k \in Certified'
        <5>1. <<n, k>> \in certs' /\ <<n, k>>[2] = k
          BY <3>1
        <5> QED
          BY <5>1 DEF Certified
      <4>3. Certified \subseteq Certified'
        BY <3>1 DEF Certified
      <4> QED
        BY <4>1, <4>2, <4>3
    <3> QED
      BY <1>0, <2>1, <3>1, <3>2 DEF Live, PInv, PrimitiveTypeOK
  <2>2. CASE LogBurn(self)
    <3>1. logged' \in {logged, logged \cup {k}} /\ UNCHANGED <<disk, registry, content, raced, certs>>
      BY <1>2, <2>2 DEF LogBurn
    <3>2. at = "reload"
      BY <1>0, <1>1, <2>2 DEF LogBurn
    <3> QED
      BY <3>1, <3>2 DEF Certified, Live, PInv, PrimitiveTypeOK
  <2> QED
    BY <2>1, <2>2
<1>4. /\ call' \in [Callers -> Calls]
      /\ call'[self].at = at /\ call'[self].op = "burn"
      /\ call'[self].name = n /\ call'[self].key = k
      /\ call'[self].reg = call[self].reg
      /\ \A q \in Callers : q # self => call'[q] = call[q]
  <2>1. at \in Stages
    BY DEF Stages
  <2> QED
    BY <1>0, <1>1, <1>2, <2>1, GotoMoves DEF PInv
<1>5. PrimitiveTypeOK'
  BY <1>3, <1>4 DEF PInv, PrimitiveTypeOK
<1>6. /\ KeysWereDrawn' /\ KeysHaveOneName'
      /\ \A m \in Names, x \in Keys : Bears(m, x)' => Bears(m, x)
      /\ \A q \in Callers : q # self => (Stage(q) /\ SealIsSecret(q) /\ BurnIsThorough(q))'
  <2>1. /\ \A m \in Names : registry'[m] \in KnownOf(self, m) /\ call'[self].reg[m] \in KnownOf(self, m)
        /\ call'[self].name \in Names /\ call'[self].key \in KnownOf(self, call'[self].name)
    BY <1>2, <1>3, <1>4 DEF KnownOf
  <2> QED
    BY <1>2, <1>3, <1>4, <1>5, <2>1, CallerKeeps
<1>7. \A m \in Names : disk["filekeys"][m] # k /\ disk["escrow"][m] # k
  BY <1>1, <1>2 DEF BurnIsThorough
<1>8. at = "reload" => k \in Certified
  BY <1>1, <1>2 DEF BurnIsThorough
<1>9. (Stage(self) /\ SealIsSecret(self) /\ BurnIsThorough(self))'
  <2>1. Stage(self)' /\ SealIsSecret(self)'
    BY <1>4 DEF Stage, SealIsSecret
  <2>2. k \in Certified'
    BY <1>3, <1>8
  <2> QED
    BY <1>3, <1>4, <1>7, <2>1, <2>2 DEF BurnIsThorough
<1>10. CertifiedIsGone'
  <2>1. k \notin Live
    BY <1>7 DEF Live, KeyPlaces
  <2>2. logged' \subseteq Certified'
    BY <1>3, <1>8 DEF PInv, CertifiedIsGone
  <2> QED
    BY <1>3, <2>1, <2>2 DEF PInv, CertifiedIsGone
<1> QED
  BY <1>5, <1>6, <1>9, <1>10 DEF PInv, CallsAreSound

LEMMA ReloadKeeps ==
  ASSUME PInv, NEW self \in Callers, Reload(self)
  PROVE  PInv' /\ \A m \in Names, k \in Keys : Bears(m, k)' => Bears(m, k)
<1>1. /\ call[self].op = "burn" /\ BurnIsThorough(self) /\ call[self].at = "reload"
      /\ UNCHANGED <<disk, registry, content, certs, logged, raced, Certified, Live>>
  BY StageFacts DEF Reload, PInv, CallsAreSound, Certified, Live
<1>2. PICK n \in Names, k \in Keys : n = call[self].name /\ k = call[self].key
  BY <1>1 DEF PInv, CallsAreSound, Stage
<1>3. CASE registry[n] = Missing
  <2>1. Finish(self, "failed")
    BY <1>2, <1>3 DEF Reload
  <2>2. registry' \in Entries /\ raced' \in BOOLEAN /\ \A m \in Names : registry'[m] \in KnownOf(self, m)
    BY <1>1 DEF PInv, PrimitiveTypeOK, KnownOf
  <2> QED
    BY <1>1, <2>1, <2>2, FinishKeeps
<1>4. CASE registry[n] # Missing
  <2>1. PICK c : c = [call[self] EXCEPT !.at = "forget", !.reg = registry]
    OBVIOUS
  <2>2. call[self] \in Calls
    BY DEF PInv, PrimitiveTypeOK
  <2>3. /\ c \in Calls /\ c.at = "forget" /\ c.reg = registry
        /\ c.op = "burn" /\ c.name = n /\ c.key = k
    BY <1>1, <1>2, <2>1, <2>2 DEF Calls, Stages, PInv, PrimitiveTypeOK
  <2>4. /\ call' \in [Callers -> Calls] /\ call'[self] = c
        /\ \A q \in Callers : q # self => call'[q] = call[q]
    <3>1. call' = [call EXCEPT ![self] = c]
      BY <1>2, <1>4, <2>1 DEF Reload
    <3> QED
      BY <2>3, <3>1, CallChanges DEF PInv
  <2>5. PrimitiveTypeOK'
    BY <1>1, <2>4 DEF PInv, PrimitiveTypeOK
  <2>6. /\ KeysWereDrawn' /\ KeysHaveOneName'
        /\ \A m \in Names, x \in Keys : Bears(m, x)' => Bears(m, x)
        /\ \A q \in Callers : q # self => (Stage(q) /\ SealIsSecret(q) /\ BurnIsThorough(q))'
    <3>1. /\ \A m \in Names : registry'[m] \in KnownOf(self, m) /\ call'[self].reg[m] \in KnownOf(self, m)
          /\ call'[self].name \in Names /\ call'[self].key \in KnownOf(self, call'[self].name)
      BY <1>1, <1>2, <2>3, <2>4 DEF KnownOf
    <3> QED
      BY <1>1, <2>4, <2>5, <3>1, CallerKeeps
  <2>7. (Stage(self) /\ SealIsSecret(self) /\ BurnIsThorough(self))'
    BY <1>1, <1>2, <2>3, <2>4 DEF Stage, SealIsSecret, BurnIsThorough
  <2>8. CertifiedIsGone'
    BY <1>1 DEF PInv, CertifiedIsGone
  <2> QED
    BY <2>5, <2>6, <2>7, <2>8 DEF PInv, CallsAreSound
<1> QED
  BY <1>3, <1>4

\* The steps that end a call.
LEMMA EndsKeep ==
  ASSUME PInv, NEW self \in Callers,
         Register(self) \/ Forget(self) \/ Drop(self, "idle")
  PROVE  PInv' /\ \A m \in Names, k \in Keys : Bears(m, k)' => Bears(m, k)
<1>1. CASE Register(self) \/ Forget(self)
  <2>1. call[self].name \in Names /\ call[self].key \in Keys
    BY <1>1, StageFacts DEF Register, Forget
  <2>2. PICK entry \in {Missing, call[self].key} : SaveRegistry(self, entry)
    BY <1>1 DEF Register, Forget
  <2>3. registry' \in Entries /\ raced' \in BOOLEAN /\ \A m \in Names : registry'[m] \in KnownOf(self, m)
    BY <2>1, <2>2, SaveRegistryKnows
  <2>4. Finish(self, "done") /\ UNCHANGED <<disk, content, certs, logged>>
    BY <1>1 DEF Register, Forget
  <2> QED
    BY <2>3, <2>4, FinishKeeps
<1>2. CASE Drop(self, "idle")
  <2>1. registry' \in Entries /\ raced' \in BOOLEAN /\ \A m \in Names : registry'[m] \in KnownOf(self, m)
    BY <1>2 DEF Drop, PInv, PrimitiveTypeOK, KnownOf
  <2>2. Finish(self, "idle") /\ UNCHANGED <<disk, content, certs, logged>>
    BY <1>2 DEF Drop
  <2> QED
    BY <2>1, <2>2, FinishKeeps
<1> QED
  BY <1>1, <1>2

LEMMA NamesAreOwned == \A self \in Callers : OwnNames(self) \subseteq Names
BY DEF OwnNames

LEMMA PrimitiveKeeps ==
  ASSUME PInv, NEW self \in Callers, PrimitiveStep(self) PROVE PInv'
<1>1. ASSUME NEW n \in OwnNames(self), NEW data \in Int, NEW escrow \in BOOLEAN,
             Seal(self, n, data, escrow)
      PROVE  PInv'
  BY <1>1, NamesAreOwned, SealKeeps
<1>2. ASSUME NEW n \in OwnNames(self), BeginBurn(self, n) PROVE PInv'
  BY <1>2, NamesAreOwned, BeginBurnKeeps
<1>3. CASE FileStep(self)
  BY <1>3, WriteSealedKeeps, BurnStepKeeps, PapersKeep, ReloadKeeps, EndsKeep DEF FileStep
<1>4. CASE Drop(self, "idle")
  BY <1>4, EndsKeep
<1> QED
  BY <1>1, <1>2, <1>3, <1>4 DEF PrimitiveStep

-----------------------------------------------------------------------------
(* The walk: its type, and what it has in hand.                             *)

WalkIsSound == WalkTypeOK /\ InHand

LEMMA WalkInit == Init => WalkIsSound
<1> SUFFICES ASSUME Init PROVE WalkIsSound
  OBVIOUS
<1>1. /\ walk.at = "idle" /\ walk.entries = {} /\ walk \in [at : {"idle"}, burn : Nat,
           todo : SUBSET Paths, entries : Lists, path : {0}, version : {0}]
  BY DEF Init, NoWalk, Lists
<1>2. tree \in [Paths -> Readable \cup {Missing}] /\ outside \in Readable
  <2>1. (\A p \in Paths : p \in Versions) /\ Beyond \in Versions
    BY DEF Paths, Versions, Beyond
  <2> QED
    BY <2>1 DEF Init, Readable
<1>3. IsFiniteSet(manifests) /\ manifests \in SUBSET Lists
  BY FS_EmptySet DEF Init
<1>4. walk \in [at : Handling \cup {"idle", "next", "manifest", "verify"}, burn : Nat,
               todo : SUBSET Paths, entries : Lists, path : Paths \cup {0},
               version : Readable \cup {0}]
  BY <1>1
<1>5. burns \in Nat /\ edits \in 0..MaxEdits /\ crashes \in Nat /\ standing \in BOOLEAN
  BY DEF Init
<1> QED
  BY <1>1, <1>2, <1>3, <1>4, <1>5 DEF WalkIsSound, WalkTypeOK, InHand, Handling

\* A list of paths has a least one.
LEMMA LeastPath ==
  ASSUME NEW ps \in SUBSET Nat, ps # {} PROVE \E p \in ps : \A q \in ps : p <= q
<1> DEFINE R == OpToRel(<, Nat)
<1>1. ASSUME NEW x \in Nat, NEW y \in Nat, ~(<<x, y>> \in R) PROVE y <= x
  BY <1>1 DEF OpToRel
<1>2. IsWellFoundedOn(R, Nat)
  BY NatLessThanWellFounded
<1> HIDE DEF R
<1>3. PICK p \in ps : \A q \in ps : ~(<<q, p>> \in R)
  BY <1>2, WFMin
<1>4. \A q \in ps : p <= q
  BY <1>1, <1>3
<1> QED
  BY <1>4

LEMMA FirstIsListed ==
  ASSUME NEW ps \in SUBSET Paths, ps # {} PROVE First(ps) \in ps
<1>1. ps \in SUBSET Nat
  BY DEF Paths
<1>2. \E p \in ps : \A q \in ps : p <= q
  BY <1>1, LeastPath
<1> QED
  BY <1>2 DEF First

\* Writing to a file leaves what was written, or what was there, under every name.
LEMMA WritesKeepTypes ==
  ASSUME WalkTypeOK, NEW f, NEW v \in Readable, WriteTo(f, v)
  PROVE  /\ tree' \in [Paths -> Readable \cup {Missing}] /\ outside' \in Readable
         /\ \A p \in Paths : tree'[p] = IF p \in Present /\ file[p] = f THEN v ELSE tree[p]
BY DEF WalkTypeOK, WriteTo

\* A step of the walk that ends it or moves it on with what it has in hand.
LEMMA WalkKeeps == WalkIsSound /\ [Next]_vars => WalkIsSound'
<1> SUFFICES ASSUME WalkIsSound, [Next]_vars PROVE WalkIsSound'
  OBVIOUS
<1> USE DEF WalkIsSound
<1>0. WalkTypeOK /\ InHand
  OBVIOUS
<1>t. /\ walk.burn \in Nat /\ walk.todo \in SUBSET Paths /\ walk.entries \in Lists
      /\ walk.path \in Paths \cup {0} /\ walk.version \in Readable \cup {0}
      /\ walk.at \in Handling \cup {"idle", "next", "manifest", "verify"}
  BY DEF WalkTypeOK
<1>1. ASSUME UNCHANGED <<tree, outside, standing, walk, manifests, burns, edits>>,
             crashes' \in {crashes, crashes + 1}
      PROVE  WalkIsSound'
  BY <1>0, <1>1 DEF WalkTypeOK, InHand
<1>2. ASSUME Die, UNCHANGED <<manifests, burns, edits>>, standing' \in BOOLEAN,
             tree' \in [Paths -> Readable \cup {Missing}], outside' \in Readable,
             crashes' \in {crashes, crashes + 1}
      PROVE  WalkIsSound'
  <2>1. /\ walk'.at = "idle" /\ walk'.burn = 0 /\ walk'.todo = {} /\ walk'.entries = {}
        /\ walk' \in [at : Handling \cup {"idle", "next", "manifest", "verify"}, burn : Nat,
               todo : SUBSET Paths, entries : Lists, path : Paths \cup {0},
               version : Readable \cup {0}]
    BY <1>2 DEF Die, NoWalk, Lists
  <2>2. walk'.at \notin Handling
    BY <2>1 DEF Handling
  <2>3. WalkTypeOK'
    BY <1>2, <2>1 DEF WalkTypeOK
  <2>4. InHand'
    BY <2>1, <2>2 DEF InHand
  <2> QED
    BY <2>3, <2>4
<1>3. ASSUME NEW at \in Handling \cup {"next", "manifest", "verify"}, Step(at),
             walk.at # "idle", at \in Handling => walk.at \in Handling,
             UNCHANGED <<burns, edits, crashes>>, standing' \in BOOLEAN,
             manifests' \in SUBSET Lists, IsFiniteSet(manifests'),
             tree' \in [Paths -> Readable \cup {Missing}], outside' \in Readable
      PROVE  WalkIsSound'
  <2>1. /\ walk' = [walk EXCEPT !.at = at]
        /\ walk'.at = at /\ walk'.burn = walk.burn /\ walk'.todo = walk.todo
        /\ walk'.entries = walk.entries /\ walk'.path = walk.path
        /\ walk'.version = walk.version
    BY <1>3 DEF Step, WalkTypeOK
  <2>2. walk' \in [at : Handling \cup {"idle", "next", "manifest", "verify"}, burn : Nat,
               todo : SUBSET Paths, entries : Lists, path : Paths \cup {0},
               version : Readable \cup {0}]
    BY <2>1 DEF WalkTypeOK
  <2>3. WalkTypeOK'
    BY <1>3, <2>2 DEF WalkTypeOK
  <2>4. InHand'
    BY <1>0, <1>3, <2>1 DEF InHand
  <2> QED
    BY <2>3, <2>4
<1>4. CASE BurnDirectory
  <2>1. /\ walk' = [NoWalk EXCEPT !.at = "next", !.burn = burns + 1, !.todo = Present]
        /\ burns' = burns + 1 /\ burns < MaxBurns
        /\ UNCHANGED <<tree, outside, standing, manifests, edits, crashes>>
    BY <1>4 DEF BurnDirectory, target
  <2>2. burns \in Nat /\ burns + 1 \in 1..MaxBurns /\ Present \in SUBSET Paths
    BY <2>1 DEF WalkTypeOK, Present
  <2>3. /\ walk'.at = "next" /\ walk'.burn = burns + 1 /\ walk'.entries = {}
        /\ walk' \in [at : Handling \cup {"idle", "next", "manifest", "verify"}, burn : Nat,
               todo : SUBSET Paths, entries : Lists, path : Paths \cup {0},
               version : Readable \cup {0}]
    <3>1. PICK id \in Nat, ps \in SUBSET Paths : id = burns + 1 /\ ps = Present
      BY <2>2
    <3>2. walk' = [at |-> "next", burn |-> id, todo |-> ps, entries |-> {}, path |-> 0,
                   version |-> 0]
      BY <2>1, <3>1 DEF NoWalk
    <3>3. {} \in Lists
      BY DEF Lists
    <3> QED
      BY <3>1, <3>2, <3>3
  <2>4. walk'.at \notin Handling
    BY <2>3 DEF Handling
  <2>5. WalkTypeOK'
    BY <1>0, <2>1, <2>2, <2>3 DEF WalkTypeOK
  <2>6. InHand'
    BY <2>1, <2>2, <2>3, <2>4 DEF InHand
  <2> QED
    BY <2>5, <2>6
<1>5. CASE ReadFile
  <2>1. CASE Die
    BY <1>0, <1>2, <1>5, <2>1 DEF ReadFile, WalkTypeOK, target
  <2>2. CASE ~Die
    <3>1. PICK p \in walk.todo : p = Here
      BY <1>t, <1>5, FirstIsListed DEF ReadFile, Here
    <3>2. /\ tree[p] \in Readable /\ p \in Paths
          /\ walk' = [walk EXCEPT !.at = "read", !.path = p, !.version = tree[p],
                                  !.todo = walk.todo \ {p}]
          /\ walk.at = "next"
          /\ UNCHANGED <<tree, outside, standing, manifests, burns, edits, crashes>>
      BY <1>t, <1>5, <2>2, <3>1 DEF ReadFile, WalkTypeOK, target
    <3>3. /\ walk'.at = "read" /\ walk'.burn = walk.burn /\ walk'.path = p
          /\ walk'.version = tree[p] /\ walk'.todo = walk.todo \ {p}
          /\ walk'.entries = walk.entries
      BY <3>2 DEF WalkTypeOK
    <3>4. walk' \in [at : Handling \cup {"idle", "next", "manifest", "verify"}, burn : Nat,
               todo : SUBSET Paths, entries : Lists, path : Paths \cup {0},
               version : Readable \cup {0}]
      BY <3>2 DEF WalkTypeOK, Handling
    <3>5. WalkTypeOK'
      BY <1>0, <3>2, <3>4 DEF WalkTypeOK
    <3>6. \A e \in walk.entries : e[1] \notin walk.todo
      BY DEF InHand
    <3>7. InHand'
      BY <1>0, <3>1, <3>2, <3>3, <3>6 DEF InHand
    <3> QED
      BY <3>5, <3>7
  <2> QED
    BY <2>1, <2>2
<1>6. CASE SealFile
  BY <1>0, <1>3, <1>6 DEF SealFile, WalkTypeOK, Handling, target
<1>7. CASE BurnSealed
  <2>1. Die \/ Step("burn")
    BY <1>7 DEF BurnSealed
  <2> QED
    BY <1>0, <1>2, <1>3, <1>7, <2>1 DEF BurnSealed, WalkTypeOK, Handling, target
<1>8. CASE OverwriteOriginal
  <2>1. CASE Die /\ UNCHANGED <<tree, outside>>
    BY <1>0, <1>2, <1>8, <2>1 DEF OverwriteOriginal, WalkTypeOK
  <2>2. CASE ~(Die /\ UNCHANGED <<tree, outside>>)
    <3>1. Step("unlink") /\ WriteTo(file[walk.path], Scrap)
      BY <1>8, <2>2 DEF OverwriteOriginal
    <3>2. tree' \in [Paths -> Readable \cup {Missing}] /\ outside' \in Readable
      BY <1>0, <3>1, WritesKeepTypes DEF Readable
    <3> QED
      BY <1>0, <1>3, <1>8, <3>1, <3>2 DEF OverwriteOriginal, WalkTypeOK, Handling
  <2> QED
    BY <2>1, <2>2
<1>9. CASE UnlinkOriginal
  <2>1. CASE Die /\ UNCHANGED tree
    BY <1>0, <1>2, <1>9, <2>1 DEF UnlinkOriginal, WalkTypeOK, target
  <2>2. CASE ~(Die /\ UNCHANGED tree)
    <3>1. /\ walk' = Listed /\ tree' = [tree EXCEPT ![walk.path] = Missing]
          /\ walk.at = "unlink"
          /\ UNCHANGED <<outside, standing, manifests, burns, edits, crashes>>
      BY <1>9, <2>2 DEF UnlinkOriginal, target
    <3>2. tree' \in [Paths -> Readable \cup {Missing}]
      BY <1>0, <3>1 DEF WalkTypeOK
    <3>3. walk.path \in Paths /\ walk.version \in Readable /\ walk.path \notin walk.todo
      BY <3>1 DEF InHand, Handling
    <3>4. PICK done \in Lists : done = walk.entries \cup {<<walk.path, walk.version>>}
      <4>1. <<walk.path, walk.version>> \in Paths \X Readable
        BY <3>3
      <4>2. PICK all : all = Paths \X Readable
        OBVIOUS
      <4>3. walk.entries \in SUBSET all
        BY <1>t, <4>2 DEF Lists
      <4>4. walk.entries \cup {<<walk.path, walk.version>>} \in SUBSET all
        BY <4>1, <4>2, <4>3
      <4> QED
        BY <4>2, <4>4 DEF Lists
    <3>5. /\ walk'.at = "next" /\ walk'.burn = walk.burn /\ walk'.entries = done
          /\ walk'.todo = walk.todo
          /\ walk' \in [at : Handling \cup {"idle", "next", "manifest", "verify"}, burn : Nat,
               todo : SUBSET Paths, entries : Lists, path : Paths \cup {0},
               version : Readable \cup {0}]
      BY <3>1, <3>4 DEF Listed, WalkTypeOK
    <3>6. WalkTypeOK'
      BY <1>0, <3>1, <3>2, <3>5 DEF WalkTypeOK
    <3>7. \A e \in done : e[1] \notin walk.todo
      BY <3>3, <3>4 DEF InHand
    <3>8. walk'.at \notin Handling
      BY <3>5 DEF Handling
    <3>9. walk'.burn = burns' /\ burns' \in 1..MaxBurns
      BY <3>1, <3>5 DEF InHand
    <3>10. InHand'
      BY <3>5, <3>7, <3>8, <3>9 DEF InHand
    <3> QED
      BY <3>6, <3>10
  <2> QED
    BY <2>1, <2>2
<1>10. CASE RemoveDirs
  BY <1>0, <1>3, <1>10 DEF RemoveDirs, WalkTypeOK, Handling, target
<1>11. CASE WriteManifest
  <2>1. manifests' \in SUBSET Lists /\ IsFiniteSet(manifests')
    BY <1>t, <1>11, FS_AddElement DEF WriteManifest, WalkTypeOK
  <2> QED
    BY <1>0, <1>3, <1>11, <2>1 DEF WriteManifest, WalkTypeOK, Handling, target
<1>12. CASE VerifyManifest
  BY <1>0, <1>2, <1>12 DEF VerifyManifest, WalkTypeOK, target
<1>13. ASSUME NEW p \in Paths, Edit(p) \/ AddLink(p) PROVE WalkIsSound'
  <2>0. Disturb
    BY <1>13 DEF Edit, AddLink, Disturb
  <2>1. NextVersion \in Versions /\ edits + 1 \in 0..MaxEdits
    BY <2>0 DEF Disturb, NextVersion, Beyond, Versions, WalkTypeOK
  <2>2. tree' \in [Paths -> Readable \cup {Missing}] /\ outside' \in Readable
    <3>1. NextVersion \in Readable
      BY <2>1 DEF Readable
    <3>2. CASE WriteTo(file[p], NextVersion)
      BY <1>0, <3>1, <3>2, WritesKeepTypes
    <3>t. tree \in [Paths -> Readable \cup {Missing}] /\ outside \in Readable
      BY DEF WalkTypeOK
    <3>3. CASE tree' = [tree EXCEPT ![p] = NextVersion] /\ UNCHANGED outside
      BY <3>t, <3>1, <3>3
    <3>4. CASE AddLink(p)
      <4>1. \E v \in Readable \cup {Missing} : tree' = [tree EXCEPT ![p] = v]
        <5>1. CASE \E q \in Present \ {p} : tree' = [tree EXCEPT ![p] = tree[q]]
          BY <3>t, <5>1 DEF Present
        <5>2. CASE tree' = [tree EXCEPT ![p] = outside]
          BY <3>t, <5>2
        <5> QED
          BY <3>4, <5>1, <5>2 DEF AddLink
      <4>2. outside' = outside
        BY <3>4 DEF AddLink
      <4> QED
        BY <3>t, <4>1, <4>2
    <3> QED
      BY <1>13, <3>2, <3>3, <3>4 DEF Edit
  <2> QED
    BY <1>0, <2>0, <2>1, <2>2 DEF Disturb, WalkTypeOK, InHand
<1>15. CASE Crash
  BY <1>0, <1>2, <1>15 DEF Crash, WalkTypeOK, target
<1>16. CASE Call("dirburn") \/ Cli \/ Call("cli") \/ CrashCli \/ UNCHANGED vars
  BY <1>1, <1>16 DEF Call, Cli, CrashCli, wvars, vars, target
<1> QED
  BY <1>4, <1>5, <1>6, <1>7, <1>8, <1>9, <1>10, <1>11, <1>12, <1>13, <1>15, <1>16 DEF Next

-----------------------------------------------------------------------------
(* The primitive implements Deletion.                                       *)

\* The moves of a call within the primitive.
LEMMA FileStepMoves ==
  ASSUME PInv, NEW self \in Callers, FileStep(self)
  PROVE  /\ \A q \in Callers : q # self => call'[q] = call[q]
         /\ call'[self].op \in {call[self].op, "none"}
         /\ call'[self].op # "none" => /\ call'[self].name = call[self].name
                                       /\ call'[self].key = call[self].key
<1>0. PrimitiveTypeOK
  BY DEF PInv
<1>1. CASE Register(self) \/ Forget(self)
  <2>1. Finish(self, "done")
    BY <1>1 DEF Register, Forget
  <2> QED
    BY <1>0, <2>1, FinishEnds
<1>2. CASE \E at \in Stages : Goto(self, at)
  BY <1>0, <1>2, GotoMoves
<1>3. CASE Reload(self)
  <2>1. CASE Finish(self, "failed")
    BY <1>0, <2>1, FinishEnds
  <2>2. CASE ~Finish(self, "failed")
    <3>1. call' = [call EXCEPT ![self] = [call[self] EXCEPT !.at = "forget", !.reg = registry]]
      BY <1>3, <2>2 DEF Reload
    <3>2. call[self] \in Calls
      BY <1>0 DEF PrimitiveTypeOK
    <3> QED
      BY <1>0, <3>1, <3>2, CallChanges DEF Calls
  <2> QED
    BY <2>1, <2>2
<1>4. CASE WriteSealed(self)
  <2>1. AfterWrite(self) \in Stages /\ Goto(self, AfterWrite(self))
    BY <1>4 DEF WriteSealed, AfterWrite, Places, KeyPlaces, Stages
  <2> QED
    BY <1>2, <2>1
<1>5. CASE SkipMissing(self) \/ Unlink(self)
  <2>1. AfterBurn(self) \in Stages /\ Goto(self, AfterBurn(self))
    BY <1>5 DEF SkipMissing, Unlink, Burning, AfterBurn, Places, KeyPlaces, Stages
  <2> QED
    BY <1>2, <2>1
<1>6. CASE Overwrite(self)
  BY <1>6 DEF Overwrite
<1>7. CASE Certify(self) \/ LogBurn(self)
  <2>1. \E at \in Stages : Goto(self, at)
    BY <1>7 DEF Certify, LogBurn, Stages
  <2> QED
    BY <1>2, <2>1
<1> QED
  BY <1>1, <1>3, <1>4, <1>5, <1>6, <1>7 DEF FileStep

\* What the program does with the primitive in one step.
LEMMA NextUsesPrimitive ==
  ASSUME WalkIsSound, PInv, CallFollowsWalk, Next
  PROVE  UNCHANGED fvars \/ \E self \in Callers : PrimitiveStep(self)
<1>1. "dirburn" \in Callers /\ "cli" \in Callers
  OBVIOUS
<1>2. ASSUME walk.at \in Handling
      PROVE  NameOf(walk.burn, walk.path) \in OwnNames("dirburn") /\ walk.version \in Int
  <2>1. walk.burn \in 1..MaxBurns /\ walk.path \in Paths /\ walk.version \in Readable
    BY <1>2 DEF WalkIsSound, InHand, Handling
  <2>2. NameOf(walk.burn, walk.path) \in BurnNames
    BY <2>1 DEF NameOf, BurnNames
  <2> QED
    BY <2>1, <2>2 DEF Readable, Versions, OwnNames
<1>3. CASE SealFile
  <2>1. NameOf(walk.burn, walk.path) \in OwnNames("dirburn") /\ walk.version \in Int
    BY <1>2, <1>3 DEF SealFile, Handling
  <2>2. Returned("dirburn")
    BY <1>1, <1>3, StageFacts DEF SealFile, CallFollowsWalk
  <2> QED
    BY <1>1, <1>3, <2>1, <2>2 DEF SealFile, PrimitiveStep
<1>4. CASE BurnSealed
  <2>1. NameOf(walk.burn, walk.path) \in OwnNames("dirburn")
    BY <1>2, <1>4 DEF BurnSealed, Handling
  <2>2. Returned("dirburn")
    BY <1>4 DEF BurnSealed, Returned
  <2> QED
    BY <1>1, <1>4, <2>1, <2>2 DEF BurnSealed, PrimitiveStep, Drop, Abandon
<1>5. CASE OverwriteOriginal
  <2>1. Returned("dirburn") /\ Drop("dirburn", "idle")
    BY <1>5 DEF OverwriteOriginal, Returned, Drop, Abandon
  <2> QED
    BY <1>1, <2>1 DEF PrimitiveStep
<1>6. CASE Crash \/ CrashCli
  <2>1. crashes' # 0
    BY <1>6 DEF Crash, CrashCli, WalkIsSound, WalkTypeOK
  <2>2. Drop("dirburn", "idle") \/ Drop("cli", "idle")
    BY <1>6 DEF Crash, CrashCli, Drop, Abandon
  <2> QED
    BY <1>1, <2>1, <2>2 DEF PrimitiveStep
<1>7. CASE Cli
  <2>1. PICK n \in CliNames : Seal("cli", n, 0, TRUE) \/ BeginBurn("cli", n)
    BY <1>7 DEF Cli
  <2>2. n \in OwnNames("cli") /\ 0 \in Int /\ Returned("cli")
    BY <1>7 DEF OwnNames, Cli
  <2> QED
    BY <1>1, <2>1, <2>2 DEF PrimitiveStep
<1>8. CASE Call("dirburn") \/ Call("cli")
  BY <1>1, <1>8 DEF Call, PrimitiveStep
<1>9. CASE \/ BurnDirectory \/ ReadFile \/ UnlinkOriginal \/ RemoveDirs \/ WriteManifest
           \/ VerifyManifest \/ (\E p \in Paths : Edit(p) \/ AddLink(p))
  BY <1>9 DEF BurnDirectory, ReadFile, UnlinkOriginal, RemoveDirs, WriteManifest,
              VerifyManifest, Edit, AddLink, Disturb
<1> QED
  BY <1>3, <1>4, <1>5, <1>6, <1>7, <1>8, <1>9 DEF Next

BurnInv == WalkIsSound /\ PInv /\ CallFollowsWalk

LEMMA BurnInvInit == Init => BurnInv
<1> SUFFICES ASSUME Init PROVE BurnInv
  OBVIOUS
<1>1. call["dirburn"].op = "none"
  BY DEF Init, FInit, NoCall
<1> QED
  BY <1>1, WalkInit, PrimitiveInit DEF BurnInv, Init, CallFollowsWalk

\* The call of the directory burn is over whenever the walk goes on to the next thing.
LEMMA CallFollows ==
  ASSUME BurnInv, Next PROVE CallFollowsWalk'
<1>0. /\ PInv /\ PrimitiveTypeOK /\ CallFollowsWalk /\ WalkTypeOK
      /\ "dirburn" \in Callers /\ "cli" \in Callers /\ "dirburn" # "cli"
  BY DEF BurnInv, PInv, WalkIsSound
<1>1. ASSUME call["dirburn"].op = "none", UNCHANGED fvars PROVE CallFollowsWalk'
  BY <1>1 DEF CallFollowsWalk, fvars
<1>2. ASSUME call["dirburn"].op = "none", UNCHANGED call PROVE CallFollowsWalk'
  BY <1>2 DEF CallFollowsWalk
<1>3. ASSUME Abandon("dirburn") PROVE CallFollowsWalk'
  <2>1. Finish("dirburn", "idle")
    BY <1>3 DEF Abandon
  <2>2. call'["dirburn"].op = "none"
    BY <1>0, <2>1, FinishEnds
  <2> QED
    BY <2>2 DEF CallFollowsWalk
<1>4. ASSUME call'["dirburn"] = call["dirburn"], UNCHANGED walk PROVE CallFollowsWalk'
  BY <1>0, <1>4 DEF CallFollowsWalk
<1>5. call["dirburn"].op \in {"none", "seal", "burn"}
  BY <1>0, StageFacts
<1>6. walk.at \notin {"seal", "burn"} => call["dirburn"].op = "none"
  BY <1>0, <1>5 DEF CallFollowsWalk
<1>7. CASE \/ BurnDirectory \/ ReadFile \/ UnlinkOriginal \/ RemoveDirs \/ WriteManifest
           \/ VerifyManifest
  <2>1. UNCHANGED fvars /\ walk.at \notin {"seal", "burn"}
    BY <1>7 DEF BurnDirectory, ReadFile, UnlinkOriginal, RemoveDirs, WriteManifest,
                VerifyManifest
  <2> QED
    BY <1>1, <1>6, <2>1
<1>8. CASE (\E p \in Paths : Edit(p) \/ AddLink(p))
  BY <1>4, <1>8 DEF Edit, AddLink, Disturb, fvars
<1>9. CASE OverwriteOriginal \/ Crash
  BY <1>3, <1>9 DEF OverwriteOriginal, Crash
<1>10. CASE CrashCli
  <2>1. Finish("cli", "idle") /\ UNCHANGED walk
    BY <1>10 DEF CrashCli, Abandon
  <2> QED
    BY <1>0, <1>4, <2>1, FinishEnds
<1>11. CASE Cli
  <2>1. \E c : call' = [call EXCEPT !["cli"] = c]
    BY <1>11 DEF Cli, Seal, BeginBurn
  <2>2. UNCHANGED walk
    BY <1>11 DEF Cli, wvars
  <2> QED
    BY <1>0, <1>4, <2>1, <2>2, CallChanges
<1>12. CASE Call("cli")
  BY <1>0, <1>4, <1>12, FileStepMoves DEF Call, wvars
<1>13. CASE Call("dirburn")
  <2>1. /\ call'["dirburn"].op \in {call["dirburn"].op, "none"} /\ UNCHANGED walk
        /\ call'["dirburn"].op # "none" => call'["dirburn"].name = call["dirburn"].name
    BY <1>0, <1>13, FileStepMoves DEF Call, wvars
  <2> QED
    BY <1>0, <2>1 DEF CallFollowsWalk
<1>14. CASE SealFile \/ BurnSealed
  <2>1. CASE Abandon("dirburn")
    BY <1>3, <2>1
  <2>2. CASE ~Abandon("dirburn")
    <3>1. PICK at \in {"seal", "burn"} : Step(at) /\
            \E c : /\ call' = [call EXCEPT !["dirburn"] = c]
                   /\ c.op = at /\ c.name = NameOf(walk.burn, walk.path)
      <4>1. CASE SealFile
        <5>1. Step("seal") /\ Seal("dirburn", NameOf(walk.burn, walk.path), walk.version, FALSE)
          BY <4>1 DEF SealFile
        <5>2. PICK c : /\ c = [at |-> "files", op |-> "seal", name |-> NameOf(walk.burn, walk.path),
                               key |-> Len(content) + 1, escrow |-> FALSE, reg |-> registry]
                       /\ call' = [call EXCEPT !["dirburn"] = c]
          BY <5>1 DEF Seal
        <5>3. c.op = "seal" /\ c.name = NameOf(walk.burn, walk.path)
          BY <5>2
        <5> QED
          BY <5>1, <5>2, <5>3
      <4>2. CASE BurnSealed
        <5>1. Step("burn") /\ BeginBurn("dirburn", NameOf(walk.burn, walk.path))
          BY <2>2, <4>2 DEF BurnSealed
        <5>2. PICK c : /\ c = [NoCall EXCEPT !.at = "filekeys", !.op = "burn",
                                  !.name = NameOf(walk.burn, walk.path),
                                  !.key = registry[NameOf(walk.burn, walk.path)]]
                       /\ call' = [call EXCEPT !["dirburn"] = c]
          BY <5>1 DEF BeginBurn
        <5>3. c.op = "burn" /\ c.name = NameOf(walk.burn, walk.path)
          BY <5>2 DEF NoCall
        <5> QED
          BY <5>1, <5>2, <5>3
      <4> QED
        BY <1>14, <4>1, <4>2
    <3>2. walk'.at = at /\ walk'.burn = walk.burn /\ walk'.path = walk.path
      BY <1>0, <3>1 DEF Step, WalkTypeOK
    <3>3. call'["dirburn"].op = at /\ call'["dirburn"].name = NameOf(walk.burn, walk.path)
      BY <1>0, <3>1, CallChanges
    <3> QED
      BY <3>2, <3>3 DEF CallFollowsWalk
  <2> QED
    BY <2>1, <2>2
<1> QED
  BY <1>7, <1>8, <1>9, <1>10, <1>11, <1>12, <1>13, <1>14 DEF Next

LEMMA IdleKeeps ==
  ASSUME PInv, UNCHANGED fvars PROVE PInv'
<1>1. UNCHANGED <<disk, registry, content, certs, logged, call, raced, Certified, Live>>
  BY DEF fvars, Certified, Live
<1>2. PrimitiveTypeOK'
  BY <1>1 DEF PInv, PrimitiveTypeOK
<1>3. \A n \in Names, k \in Keys : Bears(n, k)' => Bears(n, k)
  BY <1>1 DEF Bears
<1>4. KeysWereDrawn' /\ KeysHaveOneName'
  BY <1>1, <1>3, NamesAreKept
<1>5. ASSUME NEW self \in Callers PROVE (Stage(self) /\ SealIsSecret(self) /\ BurnIsThorough(self))'
  <2>1. Stage(self) /\ SealIsSecret(self) /\ BurnIsThorough(self)
    BY DEF PInv, CallsAreSound
  <2>2. Stage(self)'
    BY <1>1, <2>1 DEF Stage
  <2>3. SealIsSecret(self)'
    BY <1>1, <2>1 DEF SealIsSecret
  <2>4. BurnIsThorough(self)'
    BY <1>1, <2>1 DEF BurnIsThorough
  <2> QED
    BY <2>2, <2>3, <2>4
<1> QED
  BY <1>1, <1>2, <1>4, <1>5 DEF PInv, CallsAreSound, CertifiedIsGone

LEMMA BurnInvStep == BurnInv /\ [Next]_vars => BurnInv'
<1> SUFFICES ASSUME BurnInv, [Next]_vars PROVE BurnInv'
  OBVIOUS
<1>1. WalkIsSound' /\ PInv
  BY WalkKeeps DEF BurnInv
<1>2. CASE Next
  <2>1. CallFollowsWalk'
    BY <1>2, CallFollows
  <2>2. CASE UNCHANGED fvars
    BY <1>1, <2>1, <2>2, IdleKeeps DEF BurnInv
  <2>3. ASSUME NEW self \in Callers, PrimitiveStep(self) PROVE BurnInv'
    BY <1>1, <2>1, <2>3, PrimitiveKeeps DEF BurnInv
  <2> QED
    BY <1>2, <2>2, <2>3, NextUsesPrimitive DEF BurnInv
<1>3. CASE UNCHANGED vars
  <2>1. UNCHANGED fvars /\ UNCHANGED walk
    BY <1>3 DEF vars, wvars
  <2>2. CallFollowsWalk'
    BY <2>1 DEF BurnInv, CallFollowsWalk, fvars
  <2> QED
    BY <1>1, <2>1, <2>2, IdleKeeps DEF BurnInv
<1> QED
  BY <1>2, <1>3

\* Writing one file takes at most the key that was there, and brings at most the key written.
LEMMA StoreImplements ==
  ASSUME PInv, NEW place \in Places, NEW n \in Names, NEW value \in Keys \cup {Missing, Scrap},
         disk' = [disk EXCEPT ![place][n] = value],
         value \in Keys => value \notin Certified,
         UNCHANGED <<certs, logged>>
  PROVE  [D!DNext]_(D!dvars)
<1>0. UNCHANGED <<Certified, logged>>
  BY DEF Certified
<1>1. /\ disk'[place][n] = value
      /\ \A q \in Places, m \in Names : (q # place \/ m # n) => disk'[q][m] = disk[q][m]
  <2>1. PrimitiveTypeOK
    BY DEF PInv
  <2> QED
    BY <2>1 DEF PrimitiveTypeOK
<1>2. CASE place = "files"
  <2>1. Live' = Live
    BY <1>1, <1>2 DEF Live, Places, KeyPlaces
  <2> QED
    BY <1>0, <2>1 DEF D!dvars
<1>3. CASE place \in KeyPlaces
  <2>1. PICK old : old = disk[place][n]
    OBVIOUS
  <2>2. ASSUME NEW k \in Keys, k # old, k # value PROVE k \in Live' <=> k \in Live
    BY <1>1, <2>1, <2>2 DEF Live, Places
  <2>3. Live \subseteq Keys /\ Live' \subseteq Keys
    BY DEF Live
  <2>4. value \in Keys => value \in Live'
    BY <1>1, <1>3 DEF Live
  <2>5. ASSUME value \notin Keys PROVE value \notin Live /\ value \notin Live'
    BY <2>3, <2>5
  <2>6. PICK gone \in {{}, {old}} : Live' = (Live \ gone) \cup (IF value \in Keys THEN {value} ELSE {})
    <3>1. CASE old \in Live'
      BY <2>2, <2>3, <2>4, <2>5, <3>1, <1>3, <2>1 DEF Live
    <3>2. CASE old \notin Live'
      BY <2>2, <2>3, <2>4, <2>5, <3>2
    <3> QED
      BY <3>1, <3>2
  <2>7. CASE value \in Keys /\ value \notin Live
    <3>1. D!Appear(value)
      <4>1. PICK lost \in SUBSET Live : lost = gone \cap Live
        OBVIOUS
      <4>2. Live' = (Live \ lost) \cup {value}
        BY <2>6, <2>7, <4>1
      <4> QED
        BY <1>0, <2>7, <4>2 DEF D!Appear
    <3> QED
      BY <2>7, <3>1 DEF D!DNext
  <2>8. CASE ~(value \in Keys /\ value \notin Live)
    <3>1. Live' = Live \/ (old \in Live /\ Live' = Live \ {old})
      BY <2>4, <2>5, <2>6, <2>8
    <3>2. CASE Live' = Live
      BY <1>0, <3>2 DEF D!dvars
    <3>3. CASE old \in Live /\ Live' = Live \ {old}
      BY <1>0, <2>3, <3>3 DEF D!Destroy, D!DNext
    <3> QED
      BY <3>1, <3>2, <3>3
  <2> QED
    BY <2>7, <2>8
<1> QED
  BY <1>2, <1>3 DEF Places

LEMMA PrimitiveImplements ==
  ASSUME PInv, NEW self \in Callers, PrimitiveStep(self) PROVE [D!DNext]_(D!dvars)
<1>1. ASSUME UNCHANGED <<disk, certs, logged>> PROVE [D!DNext]_(D!dvars)
  BY <1>1 DEF D!dvars, Live, Certified
<1>2. CASE \/ \E n \in OwnNames(self), data \in Int, escrow \in BOOLEAN :
                   Seal(self, n, data, escrow)
           \/ \E n \in OwnNames(self) : BeginBurn(self, n)
           \/ Drop(self, "idle")
  BY <1>1, <1>2 DEF Seal, BeginBurn, Drop
<1>3. CASE Register(self) \/ SkipMissing(self) \/ Reload(self) \/ Forget(self)
  BY <1>1, <1>3 DEF Register, SkipMissing, Reload, Forget
<1>4. CASE WriteSealed(self) \/ Overwrite(self) \/ Unlink(self)
  <2>1. call[self].name \in Names /\ call[self].key \in Keys /\ call[self].at \in Places
    BY <1>4, StageFacts DEF WriteSealed, Overwrite, Unlink, Burning
  <2>2. call[self].op = "seal" => call[self].key \notin Certified
    BY DEF PInv, CallsAreSound, SealIsSecret
  <2>3. PICK value \in {call[self].key, Missing, Scrap} :
          /\ Store(self, call[self].at, value)
          /\ value = call[self].key => call[self].op = "seal" \/ value \notin Keys
    BY <1>4 DEF WriteSealed, Overwrite, Unlink, Keys
  <2>4. value \in Keys => value \notin Certified
    BY <2>2, <2>3 DEF Keys
  <2>5. disk' = [disk EXCEPT ![call[self].at][call[self].name] = value]
    BY <2>3 DEF Store
  <2>6. UNCHANGED <<certs, logged>>
    BY <1>4 DEF WriteSealed, Overwrite, Unlink
  <2>7. PICK place \in Places, n \in Names : place = call[self].at /\ n = call[self].name
    BY <2>1
  <2>8. disk' = [disk EXCEPT ![place][n] = value] /\ value \in Keys \cup {Missing, Scrap}
    BY <2>1, <2>5, <2>7
  <2> QED
    BY <2>4, <2>6, <2>8, StoreImplements
<1>5. CASE Certify(self)
  <2>1. PICK n \in Names, k \in Keys : n = call[self].name /\ k = call[self].key
    BY <1>5, StageFacts DEF Certify
  <2>2. BurnIsThorough(self) /\ call[self].op = "burn" /\ call[self].at = "certify"
    BY <1>5, StageFacts DEF Certify, PInv, CallsAreSound
  <2>3. k \notin Live
    BY <2>1, <2>2 DEF BurnIsThorough, Live, KeyPlaces
  <2>4. certs' = certs \cup {<<n, k>>} /\ UNCHANGED <<disk, logged>>
    BY <1>5, <2>1 DEF Certify
  <2>5. Certified' = Certified \cup {k} /\ Live' = Live
    <3>1. <<n, k>> \in certs' /\ <<n, k>>[2] = k
      BY <2>4
    <3>2. \A c \in certs' : c \in certs \/ c = <<n, k>>
      BY <2>4
    <3>3. certs \subseteq certs'
      BY <2>4
    <3> QED
      BY <2>4, <3>1, <3>2, <3>3 DEF Certified, Live
  <2>6. CASE k \in Certified
    BY <2>4, <2>5, <2>6 DEF D!dvars
  <2>7. CASE k \notin Certified
    BY <2>3, <2>4, <2>5, <2>7 DEF D!Certify, D!DNext
  <2> QED
    BY <2>6, <2>7
<1>6. CASE LogBurn(self)
  <2>1. PICK k \in Keys : k = call[self].key
    BY <1>6, StageFacts DEF LogBurn
  <2>2. k \in Certified
    BY <1>6, <2>1, StageFacts DEF LogBurn, PInv, CallsAreSound, BurnIsThorough
  <2>3. /\ logged' \in {logged, logged \cup {k}} /\ UNCHANGED <<Certified, Live>>
    BY <1>6, <2>1 DEF LogBurn, Certified, Live
  <2>4. CASE logged' = logged
    BY <2>3, <2>4 DEF D!dvars
  <2>5. CASE logged' # logged
    BY <2>2, <2>3, <2>5 DEF D!Record, D!DNext
  <2> QED
    BY <2>4, <2>5
<1> QED
  BY <1>2, <1>3, <1>4, <1>5, <1>6 DEF PrimitiveStep, FileStep

\* The per-file burn implements Deletion though the directory burn and the command line use
\* it at once, at any point of a burn that dies: a key is certified only when no copy of it
\* can be read, no certified key comes back, and the log names certified keys only
\* (fileburn.py burn, seal).
THEOREM FileBurnImplementsDeletion == Spec => DeletionSpec
<1>1. Init => D!DInit
  <2> SUFFICES ASSUME Init PROVE D!DInit
    OBVIOUS
  <2>1. Live \subseteq Keys
    BY DEF Live
  <2>2. Certified = {} /\ logged = {}
    BY DEF Init, FInit, Certified
  <2> QED
    BY <2>1, <2>2 DEF D!DInit
<1>2. BurnInv /\ [Next]_vars => [D!DNext]_(D!dvars)
  <2> SUFFICES ASSUME BurnInv, [Next]_vars PROVE [D!DNext]_(D!dvars)
    OBVIOUS
  <2>1. ASSUME UNCHANGED fvars PROVE [D!DNext]_(D!dvars)
    BY <2>1 DEF fvars, D!dvars, Live, Certified
  <2>2. CASE Next
    BY <2>1, <2>2, NextUsesPrimitive, PrimitiveImplements DEF BurnInv
  <2> QED
    BY <2>1, <2>2 DEF vars
<1> QED
  BY <1>1, <1>2, BurnInvInit, BurnInvStep, PTL DEF Spec, DeletionSpec, D!DSpec

-----------------------------------------------------------------------------
(* The registry and the keys agree.                                         *)

RegistryInv == BurnInv /\ RInv

LEMMA BeingSealedMeans ==
  \A k : k \in BeingSealed <=> \E c \in Callers : call[c].op = "seal" /\ call[c].key = k
BY DEF BeingSealed

\* Two calls that run are about different names.
LEMMA NamesDiffer ==
  ASSUME NamesApart, NEW self \in Callers, NEW q \in Callers, q # self,
         call[self].op # "none", call[q].op # "none"
  PROVE  call[q].name # call[self].name
BY DEF NamesApart, OwnNames

\* A step that leaves the name of another call alone leaves its progress alone.
LEMMA ProgressStays ==
  ASSUME NEW q \in Callers, Progress(q), call'[q] = call[q], raced => raced',
         call[q].op # "none" =>
           /\ \A place \in Places : disk'[place][call[q].name] = disk[place][call[q].name]
           /\ raced' \/ registry'[call[q].name] = registry[call[q].name]
  PROVE  Progress(q)'
BY DEF Progress, Places, KeyPlaces

\* What every step of a caller must show: it stays on names of its own, and the other
\* call goes on undisturbed.
LEMMA CallersKeepApart ==
  ASSUME PInv, RInv, NEW self \in Callers, raced => raced',
         \A q \in Callers : q # self => call'[q] = call[q],
         call'[self].op # "none" => call'[self].name \in OwnNames(self),
         \A m \in Names : (m # call[self].name \/ call[self].op = "none") =>
           /\ \A place \in Places : disk'[place][m] = disk[place][m]
           /\ raced' \/ registry'[m] = registry[m],
         Progress(self)'
  PROVE  NamesApart' /\ \A q \in Callers : Progress(q)'
<1>1. NamesApart /\ \A q \in Callers : Progress(q)
  BY DEF RInv
<1>2. ASSUME NEW q \in Callers, q # self PROVE Progress(q)'
  <2>1. call[q].op # "none" => call[q].name \in Names
    BY DEF PInv, CallsAreSound, Stage
  <2>2. call[q].op # "none" => call[q].name # call[self].name \/ call[self].op = "none"
    BY <1>1, <1>2, NamesDiffer
  <2>3. call[q].op # "none" =>
           /\ \A place \in Places : disk'[place][call[q].name] = disk[place][call[q].name]
           /\ raced' \/ registry'[call[q].name] = registry[call[q].name]
    BY <2>1, <2>2
  <2>4. call'[q] = call[q]
    BY <1>2
  <2> QED
    BY <1>1, <2>3, <2>4, ProgressStays
<1>3. NamesApart'
  BY <1>1 DEF NamesApart, OwnNames
<1> QED
  BY <1>2, <1>3

\* A step that changes neither disk nor registry, and ends no seal.
LEMMA RegistryStays ==
  ASSUME RegistryMatchesKeys, UNCHANGED <<disk, registry, raced>>, crashes' = 0 => crashes = 0,
         crashes' = 0 => BeingSealed \subseteq BeingSealed'
  PROVE  RegistryMatchesKeys'
<1>1. RegisteredOpens'
  BY DEF RegistryMatchesKeys, RegisteredOpens, CanUnseal
<1>2. Live' = Live
  BY DEF Live
<1>3. NoOrphanKeys'
  BY <1>2 DEF RegistryMatchesKeys, NoOrphanKeys
<1> QED
  BY <1>1, <1>3 DEF RegistryMatchesKeys

LEMMA CallsKeepRegistry ==
  ASSUME PInv, RInv, NEW self \in Callers, crashes' = 0 => crashes = 0, Returned(self),
         \/ \E n \in OwnNames(self), data \in Int, escrow \in BOOLEAN :
              Seal(self, n, data, escrow)
         \/ \E n \in OwnNames(self) : BeginBurn(self, n)
  PROVE  RInv'
<1>1. PICK n \in OwnNames(self) :
        (\E data \in Int, escrow \in BOOLEAN : Seal(self, n, data, escrow)) \/ BeginBurn(self, n)
  OBVIOUS
<1>2. n \in Names
  BY NamesAreOwned
<1>3. PICK c : /\ call' = [call EXCEPT ![self] = c]
               /\ c.name = n /\ c.op \in {"seal", "burn"}
               /\ c.op = "seal" => c.at = "files" /\ registry[n] = Missing
               /\ c.op = "burn" => c.at = "filekeys" /\ registry[n] = c.key
  <2>1. CASE BeginBurn(self, n)
    <3>1. PICK c : /\ call' = [call EXCEPT ![self] = c]
                   /\ c = [NoCall EXCEPT !.at = "filekeys", !.op = "burn", !.name = n,
                                         !.key = registry[n]]
      BY <2>1 DEF BeginBurn
    <3>2. c.name = n /\ c.op = "burn" /\ c.at = "filekeys" /\ c.key = registry[n]
      BY <3>1 DEF NoCall
    <3>3. call' = [call EXCEPT ![self] = c]
      BY <3>1
    <3> QED
      BY <3>2, <3>3
  <2>2. ASSUME NEW data \in Int, NEW escrow \in BOOLEAN, Seal(self, n, data, escrow)
        PROVE  \E c : /\ call' = [call EXCEPT ![self] = c]
                      /\ c.name = n /\ c.op \in {"seal", "burn"}
                      /\ c.op = "seal" => c.at = "files" /\ registry[n] = Missing
                      /\ c.op = "burn" => c.at = "filekeys" /\ registry[n] = c.key
    <3>1. PICK c : /\ call' = [call EXCEPT ![self] = c]
                   /\ c = [at |-> "files", op |-> "seal", name |-> n, key |-> Len(content) + 1,
                           escrow |-> escrow, reg |-> registry]
      BY <2>2 DEF Seal
    <3>2. registry[n] = Missing
      BY <2>2 DEF Seal
    <3>3. c.name = n /\ c.op = "seal" /\ c.at = "files"
      BY <3>1
    <3>4. call' = [call EXCEPT ![self] = c]
      BY <3>1
    <3> QED
      BY <3>2, <3>3, <3>4
  <2> QED
    BY <1>1, <2>1, <2>2
<1>4. UNCHANGED <<disk, registry, raced>>
  BY <1>1 DEF Seal, BeginBurn
<1>5. call'[self] = c /\ \A q \in Callers : q # self => call'[q] = call[q]
  BY <1>3, CallChanges DEF PInv
<1>6. Progress(self)'
  BY <1>3, <1>4, <1>5 DEF Progress
<1>7. NamesApart' /\ \A q \in Callers : Progress(q)'
  BY <1>3, <1>4, <1>5, <1>6, CallersKeepApart
<1>8. BeingSealed \subseteq BeingSealed'
  <2>1. call[self].op = "none"
    BY StageFacts
  <2>2. ASSUME NEW k \in BeingSealed PROVE k \in BeingSealed'
    <3>1. PICK q \in Callers : call[q].op = "seal" /\ call[q].key = k
      BY BeingSealedMeans
    <3>2. call'[q].op = "seal" /\ call'[q].key = k
      BY <1>5, <2>1, <3>1
    <3> QED
      BY <3>2 DEF BeingSealed
  <2> QED
    BY <2>2
<1> QED
  BY <1>4, <1>7, <1>8, RegistryStays DEF RInv

\* A step of a call that leaves its key to be sealed or not, as it was.
LEMMA SealGoesOn ==
  ASSUME NEW self \in Callers, \A q \in Callers : q # self => call'[q] = call[q],
         call[self].op = "seal" => call'[self].op = "seal" /\ call'[self].key = call[self].key
  PROVE  BeingSealed \subseteq BeingSealed'
<1>1. ASSUME NEW k \in BeingSealed PROVE k \in BeingSealed'
  <2>1. PICK q \in Callers : call[q].op = "seal" /\ call[q].key = k
    BY BeingSealedMeans
  <2>2. call'[q].op = "seal" /\ call'[q].key = k
    BY <2>1
  <2> QED
    BY <2>2 DEF BeingSealed
<1> QED
  BY <1>1

LEMMA WriteSealedKeepsRegistry ==
  ASSUME PInv, RInv, NEW self \in Callers, crashes' = 0 => crashes = 0, WriteSealed(self)
  PROVE  RInv'
<1>0. PrimitiveTypeOK /\ RegistryMatchesKeys /\ Progress(self) /\ NamesApart
  BY DEF PInv, RInv
<1>1. PICK n \in Names, k \in Keys : n = call[self].name /\ k = call[self].key
  BY DEF WriteSealed, PInv, CallsAreSound, Stage
<1>2. PICK at \in Places : at = call[self].at
  BY DEF WriteSealed
<1>3. /\ AfterWrite(self) \in Stages /\ AfterWrite(self) \in {"filekeys", "escrow", "register"}
      /\ AfterWrite(self) = "filekeys" <=> at = "files"
      /\ at \in {"files", "filekeys", "escrow"}
  BY <1>2 DEF AfterWrite, Places, KeyPlaces, Stages
<1>4. /\ call[self].op = "seal" /\ Store(self, at, k) /\ Goto(self, AfterWrite(self))
      /\ UNCHANGED <<registry, raced>>
  BY <1>1, <1>2 DEF WriteSealed
<1>5. /\ disk'[at][n] = k
      /\ \A q \in Places, m \in Names : (q # at \/ m # n) => disk'[q][m] = disk[q][m]
  <2>1. k \in Keys \cup {Missing, Scrap} /\ disk' = [disk EXCEPT ![at][n] = k]
    BY <1>1, <1>4 DEF Store
  <2> QED
    BY ZenonT(60), <1>0, <2>1, StoreWrites
<1>6. /\ call'[self].at = AfterWrite(self) /\ call'[self].op = "seal"
      /\ call'[self].name = n /\ call'[self].key = k
      /\ \A q \in Callers : q # self => call'[q] = call[q]
  BY <1>0, <1>1, <1>3, <1>4, GotoMoves
<1>7. /\ at \in {"filekeys", "escrow"} => disk["files"][n] = k
      /\ at = "escrow" => disk["filekeys"][n] = k
      /\ ~raced => registry[n] = Missing
  BY <1>0, <1>1, <1>2, <1>4 DEF Progress
<1>8. Progress(self)'
  <2>1. disk'["files"][n] = k
    BY <1>3, <1>5, <1>7 DEF Places, KeyPlaces
  <2>2. AfterWrite(self) # "filekeys" => disk'["filekeys"][n] = k
    BY <1>3, <1>5, <1>7 DEF Places, KeyPlaces
  <2> QED
    BY <1>3, <1>4, <1>6, <1>7, <2>1, <2>2 DEF Progress
<1>9. NamesApart' /\ \A q \in Callers : Progress(q)'
  <2>1. n \in OwnNames(self)
    BY <1>0, <1>1, <1>4 DEF NamesApart
  <2> QED
    BY <1>1, <1>4, <1>5, <1>6, <1>8, <2>1, CallersKeepApart
<1>10. RegisteredOpens'
  <2>1. ASSUME ~raced', NEW m \in Names, registry'[m] # Missing, disk'["filekeys"][m] \in Keys
        PROVE  CanUnseal(m)' /\ disk'["filekeys"][m] = registry'[m]
    <3>1. m # n /\ registry[m] # Missing
      BY <1>4, <1>7, <2>1
    <3>2. disk'["filekeys"][m] = disk["filekeys"][m] /\ disk'["files"][m] = disk["files"][m]
      BY <1>5, <3>1 DEF Places, KeyPlaces
    <3>3. CanUnseal(m) /\ disk["filekeys"][m] = registry[m]
      BY <1>0, <1>4, <2>1, <3>1, <3>2 DEF RegistryMatchesKeys, RegisteredOpens
    <3> QED
      BY <1>4, <3>2, <3>3 DEF CanUnseal
  <2> QED
    BY <2>1 DEF RegisteredOpens
<1>11. NoOrphanKeys'
  <2>1. BeingSealed \subseteq BeingSealed' /\ k \in BeingSealed
    <3>1. k \in BeingSealed
      BY <1>1, <1>4 DEF BeingSealed
    <3> QED
      BY <1>1, <1>4, <1>6, <3>1, SealGoesOn
  <2>2. Live' \subseteq Live \cup {k}
    BY <1>5 DEF Live, Places
  <2> QED
    BY <1>0, <1>4, <2>1, <2>2 DEF RegistryMatchesKeys, NoOrphanKeys
<1> QED
  BY <1>9, <1>10, <1>11 DEF RInv, RegistryMatchesKeys

LEMMA BurnStepKeepsRegistry ==
  ASSUME PInv, PInv', RInv, NEW self \in Callers, crashes' = 0 => crashes = 0,
         SkipMissing(self) \/ Overwrite(self) \/ Unlink(self)
  PROVE  RInv'
<1>0. PrimitiveTypeOK /\ RegistryMatchesKeys /\ Progress(self) /\ NamesApart
  BY DEF PInv, RInv
<1>1. PICK n \in Names, k \in Keys : n = call[self].name /\ k = call[self].key
  BY DEF SkipMissing, Overwrite, Unlink, Burning, PInv, CallsAreSound, Stage
<1>2. PICK at \in Places : at = call[self].at
  BY DEF SkipMissing, Overwrite, Unlink, Burning
<1>3. call[self].op = "burn" /\ UNCHANGED <<registry, raced>>
  BY DEF SkipMissing, Overwrite, Unlink, Burning
<1>4. Missing \notin Keys /\ Scrap \notin Keys
  BY DEF Keys
<1>5. /\ disk'[at][n] \in {Missing, Scrap}
      /\ \A q \in Places, m \in Names : (q # at \/ m # n) => disk'[q][m] = disk[q][m]
  <2>1. CASE SkipMissing(self)
    BY <1>1, <1>2, <2>1 DEF SkipMissing, Stored
  <2>2. CASE Overwrite(self) \/ Unlink(self)
    <3>1. PICK gone \in Keys \cup {Missing, Scrap} :
            gone \in {Missing, Scrap} /\ disk' = [disk EXCEPT ![at][n] = gone]
      BY <1>1, <1>2, <2>2 DEF Overwrite, Unlink, Store
    <3> QED
      BY ZenonT(60), <1>0, <3>1, StoreWrites
  <2> QED
    BY <2>1, <2>2
<1>6. /\ call'[self].op = "burn" /\ call'[self].name = n /\ call'[self].key = k
      /\ \A q \in Callers : q # self => call'[q] = call[q]
      /\ at # "filekeys" => call'[self].at # "filekeys"
  <2>1. CASE call' = call
    BY <1>1, <1>2, <1>3, <2>1
  <2>2. CASE Goto(self, AfterBurn(self))
    <3>1. AfterBurn(self) \in Stages /\ AfterBurn(self) # "filekeys"
      BY <1>2 DEF AfterBurn, Places, KeyPlaces, Stages
    <3> QED
      BY <1>0, <1>1, <1>3, <2>2, <3>1, GotoMoves
  <2> QED
    BY <2>1, <2>2 DEF SkipMissing, Overwrite, Unlink
<1>7. /\ at # "filekeys" => disk["filekeys"][n] \notin Keys
      /\ ~raced => registry[n] = k
  BY <1>0, <1>1, <1>2, <1>3 DEF Progress
<1>8. disk'["filekeys"][n] \notin Keys
  BY <1>4, <1>5, <1>7 DEF Places, KeyPlaces
<1>9. Progress(self)'
  BY <1>3, <1>6, <1>7, <1>8 DEF Progress
<1>10. NamesApart' /\ \A q \in Callers : Progress(q)'
  <2>1. n \in OwnNames(self)
    BY <1>0, <1>1, <1>3 DEF NamesApart
  <2> QED
    BY <1>1, <1>3, <1>5, <1>6, <1>9, <2>1, CallersKeepApart
<1>11. RegisteredOpens'
  <2>1. ASSUME ~raced', NEW m \in Names, registry'[m] # Missing, disk'["filekeys"][m] \in Keys
        PROVE  CanUnseal(m)' /\ disk'["filekeys"][m] = registry'[m]
    <3>1. m # n
      BY <1>8, <2>1
    <3>2. disk'["filekeys"][m] = disk["filekeys"][m] /\ disk'["files"][m] = disk["files"][m]
      BY <1>5, <3>1 DEF Places, KeyPlaces
    <3>3. CanUnseal(m) /\ disk["filekeys"][m] = registry[m]
      BY <1>0, <1>3, <2>1, <3>1, <3>2 DEF RegistryMatchesKeys, RegisteredOpens
    <3> QED
      BY <1>3, <3>2, <3>3 DEF CanUnseal
  <2> QED
    BY <2>1 DEF RegisteredOpens
<1>12. NoOrphanKeys'
  <2>1. BeingSealed \subseteq BeingSealed'
    BY <1>3, <1>6, SealGoesOn
  <2>2. Live' \subseteq Live
    BY <1>4, <1>5 DEF Live, Places
  <2> QED
    BY <1>0, <1>3, <2>1, <2>2 DEF RegistryMatchesKeys, NoOrphanKeys
<1> QED
  BY <1>10, <1>11, <1>12 DEF RInv, RegistryMatchesKeys

\* Certificate, log record and reload change neither disk nor registry.
LEMMA PapersKeepRegistry ==
  ASSUME PInv, RInv, NEW self \in Callers, crashes' = 0 => crashes = 0,
         Certify(self) \/ LogBurn(self) \/ Reload(self)
  PROVE  RInv'
<1>0. PrimitiveTypeOK /\ RegistryMatchesKeys /\ Progress(self) /\ NamesApart
  BY DEF PInv, RInv
<1>1. /\ UNCHANGED <<disk, registry, raced>> /\ call[self].op = "burn"
      /\ call[self].at # "filekeys"
  <2>1. call[self].at \in {"certify", "log", "reload"}
    BY DEF Certify, LogBurn, Reload
  <2> QED
    BY <2>1, StageFacts DEF Certify, LogBurn, Reload
<1>2. /\ \A q \in Callers : q # self => call'[q] = call[q]
      /\ call'[self].op \in {"burn", "none"}
      /\ call'[self].op # "none" => /\ call'[self].name = call[self].name
                                    /\ call'[self].key = call[self].key
  BY <1>1, FileStepMoves DEF FileStep
<1>3. Progress(self)'
  BY <1>0, <1>1, <1>2 DEF Progress
<1>4. NamesApart' /\ \A q \in Callers : Progress(q)'
  <2>1. call[self].name \in OwnNames(self)
    BY <1>0, <1>1 DEF NamesApart
  <2> QED
    BY <1>1, <1>2, <1>3, <2>1, CallersKeepApart
<1>5. BeingSealed \subseteq BeingSealed'
  BY <1>1, <1>2, SealGoesOn
<1> QED
  BY <1>0, <1>1, <1>4, <1>5, RegistryStays DEF RInv

\* A save of files.json changes one entry, unless it undoes another program's.
LEMMA SaveChangesOneEntry ==
  ASSUME PInv, NEW self \in Callers, call[self].name \in Names, call[self].key \in Keys,
         NEW entry \in {Missing, call[self].key}, SaveRegistry(self, entry), ~raced'
  PROVE  /\ ~raced
         /\ \A m \in Names :
              registry'[m] = IF m = call[self].name THEN entry ELSE registry[m]
<1>1. call[self].reg = registry /\ ~raced
  BY DEF SaveRegistry
<1> QED
  BY <1>1, SaveRegistryKnows

LEMMA RegisterKeepsRegistry ==
  ASSUME PInv, RInv, NEW self \in Callers, crashes' = 0 => crashes = 0,
         Register(self) \/ Forget(self)
  PROVE  RInv'
<1>0. PrimitiveTypeOK /\ RegistryMatchesKeys /\ Progress(self) /\ NamesApart
  BY DEF PInv, RInv
<1>1. PICK n \in Names, k \in Keys : n = call[self].name /\ k = call[self].key
  BY StageFacts DEF Register, Forget
<1>2. /\ Register(self) => call[self].op = "seal" /\ call[self].at = "register"
      /\ Forget(self) => call[self].op = "burn" /\ call[self].at = "forget"
  BY StageFacts DEF Register, Forget
<1>3. PICK entry \in {Missing, k} :
        /\ SaveRegistry(self, entry)
        /\ Register(self) => entry = k
        /\ Forget(self) => entry = Missing
  BY <1>1, <1>2 DEF Register, Forget
<1>4. Finish(self, "done") /\ UNCHANGED disk
  BY DEF Register, Forget
<1>5. call'[self].op = "none" /\ \A q \in Callers : q # self => call'[q] = call[q]
  BY <1>0, <1>4, FinishEnds
<1>6. raced => raced'
  BY <1>3 DEF SaveRegistry
<1>7. ~raced' => /\ ~raced
                 /\ \A m \in Names : registry'[m] = IF m = n THEN entry ELSE registry[m]
  BY <1>1, <1>3, SaveChangesOneEntry
<1>8. NamesApart' /\ \A q \in Callers : Progress(q)'
  <2>1. Progress(self)'
    BY <1>5 DEF Progress
  <2>2. call[self].op # "none"
    BY <1>2
  <2> QED
    BY <1>1, <1>4, <1>5, <1>6, <1>7, <2>1, <2>2, CallersKeepApart
<1>9. UNCHANGED Live
  BY <1>4 DEF Live
<1>10. RegisteredOpens'
  <2>1. ASSUME ~raced', NEW m \in Names, registry'[m] # Missing, disk'["filekeys"][m] \in Keys
        PROVE  CanUnseal(m)' /\ disk'["filekeys"][m] = registry'[m]
    <3>1. CASE m = n
      <4>1. Register(self) /\ registry'[n] = k
        BY <1>3, <1>7, <2>1, <3>1
      <4>2. disk["files"][n] = k /\ disk["filekeys"][n] = k
        BY <1>0, <1>1, <1>2, <4>1 DEF Progress
      <4> QED
        BY <1>4, <2>1, <3>1, <4>1, <4>2 DEF CanUnseal
    <3>2. CASE m # n
      <4>1. registry'[m] = registry[m] /\ ~raced
        BY <1>7, <2>1, <3>2
      <4>2. CanUnseal(m) /\ disk["filekeys"][m] = registry[m]
        BY <1>0, <1>4, <2>1, <4>1 DEF RegistryMatchesKeys, RegisteredOpens
      <4> QED
        BY <1>4, <4>1, <4>2 DEF CanUnseal
    <3> QED
      BY <3>1, <3>2
  <2> QED
    BY <2>1 DEF RegisteredOpens
<1>11. NoOrphanKeys'
  <2>1. ASSUME crashes' = 0, ~raced', NEW x \in Live'
        PROVE  (\E m \in Names : registry'[m] = x) \/ x \in BeingSealed'
    <3>1. x \in Live /\ crashes = 0 /\ ~raced
      BY <1>7, <1>9, <2>1
    <3>2. (\E m \in Names : registry[m] = x) \/ x \in BeingSealed
      BY <1>0, <3>1 DEF RegistryMatchesKeys, NoOrphanKeys
    <3>3. ASSUME NEW m \in Names, registry[m] = x PROVE \E o \in Names : registry'[o] = x
      <4>1. CASE m # n
        BY <1>7, <2>1, <3>3, <4>1
      <4>2. CASE m = n
        <5>1. CASE Register(self)
          <6>1. registry[n] = Missing
            BY <1>0, <1>1, <1>2, <3>1, <5>1 DEF Progress
          <6> QED
            BY <3>1, <3>3, <4>2, <6>1 DEF Live, Keys
        <5>2. CASE Forget(self)
          <6>1. registry[n] = k
            BY <1>0, <1>1, <1>2, <3>1, <5>2 DEF Progress
          <6>2. k \notin Live
            <7>1. BurnIsThorough(self)
              BY DEF PInv, CallsAreSound
            <7> QED
              BY <1>1, <1>2, <5>2, <7>1 DEF BurnIsThorough, Live, KeyPlaces
          <6> QED
            BY <3>1, <3>3, <4>2, <6>1, <6>2
        <5> QED
          BY <5>1, <5>2
      <4> QED
        BY <4>1, <4>2
    <3>4. ASSUME NEW q \in Callers, call[q].op = "seal", call[q].key = x
          PROVE  (\E m \in Names : registry'[m] = x) \/ x \in BeingSealed'
      <4>1. CASE q = self
        BY <1>1, <1>2, <1>3, <1>7, <2>1, <3>4, <4>1
      <4>2. CASE q # self
        <5>1. call'[q].op = "seal" /\ call'[q].key = x
          BY <1>5, <3>4, <4>2
        <5> QED
          BY <5>1 DEF BeingSealed
      <4> QED
        BY <4>1, <4>2
    <3> QED
      BY <3>2, <3>3, <3>4, BeingSealedMeans
  <2> QED
    BY <2>1 DEF NoOrphanKeys
<1> QED
  BY <1>8, <1>10, <1>11 DEF RInv, RegistryMatchesKeys

LEMMA DropKeepsRegistry ==
  ASSUME PInv, RInv, NEW self \in Callers, crashes' = 0 => crashes = 0,
         Drop(self, "idle"), Returned(self) \/ crashes' # 0
  PROVE  RInv'
<1>0. PrimitiveTypeOK /\ RegistryMatchesKeys
  BY DEF PInv, RInv
<1>1. /\ call'[self].op = "none" /\ \A q \in Callers : q # self => call'[q] = call[q]
      /\ UNCHANGED <<disk, registry, raced>>
  BY <1>0, FinishEnds DEF Drop
<1>2. Progress(self)'
  BY <1>1 DEF Progress
<1>3. NamesApart' /\ \A q \in Callers : Progress(q)'
  BY <1>1, <1>2, CallersKeepApart
<1>4. crashes' = 0 => BeingSealed \subseteq BeingSealed'
  BY <1>1, StageFacts, SealGoesOn
<1> QED
  BY <1>0, <1>1, <1>3, <1>4, RegistryStays DEF RInv

LEMMA RegistryInit == Init => RInv
<1> SUFFICES ASSUME Init PROVE RInv
  OBVIOUS
<1>1. \A self \in Callers : call[self].op = "none"
  BY DEF Init, FInit, NoCall
<1>2. NamesApart /\ \A self \in Callers : Progress(self)
  BY <1>1 DEF NamesApart, Progress
<1>3. \A n \in Names : registry[n] = Missing /\ \A place \in Places : disk[place][n] = Missing
  BY DEF Init, FInit
<1>4. Live = {}
  BY <1>3 DEF Live, Keys, Places
<1>5. RegistryMatchesKeys
  BY <1>3, <1>4 DEF RegistryMatchesKeys, RegisteredOpens, NoOrphanKeys
<1> QED
  BY <1>2, <1>5 DEF RInv

LEMMA RegistryStep == RegistryInv /\ [Next]_vars => RegistryInv'
<1> SUFFICES ASSUME RegistryInv, [Next]_vars PROVE RegistryInv'
  OBVIOUS
<1>1. BurnInv /\ RInv /\ BurnInv' /\ PInv /\ PInv'
  BY BurnInvStep DEF RegistryInv, BurnInv
<1>2. crashes' = 0 => crashes = 0
  <2>1. crashes \in Nat /\ crashes' \in {crashes, crashes + 1}
    BY <1>1 DEF BurnInv, WalkIsSound, WalkTypeOK, Next, BurnDirectory, ReadFile, SealFile,
         BurnSealed, OverwriteOriginal, UnlinkOriginal, RemoveDirs, WriteManifest,
         VerifyManifest, Call, Cli, Edit, AddLink, Disturb, Crash, CrashCli, vars, wvars
  <2> QED
    BY <2>1
<1>3. CASE UNCHANGED fvars
  <2>1. UNCHANGED <<disk, registry, raced, call>>
    BY <1>3 DEF fvars
  <2>2. NamesApart' /\ \A q \in Callers : Progress(q)'
    BY <1>1, <2>1 DEF RInv, NamesApart, Progress
  <2>3. BeingSealed \subseteq BeingSealed'
    BY <2>1 DEF BeingSealed
  <2> QED
    BY <1>1, <1>2, <2>1, <2>2, <2>3, RegistryStays DEF RegistryInv, RInv
<1>4. ASSUME NEW self \in Callers, PrimitiveStep(self) PROVE RegistryInv'
  <2>1. CASE \/ /\ Returned(self)
                /\ \E n \in OwnNames(self), data \in Int, escrow \in BOOLEAN :
                     Seal(self, n, data, escrow)
             \/ Returned(self) /\ \E n \in OwnNames(self) : BeginBurn(self, n)
    BY <1>1, <1>2, <2>1, CallsKeepRegistry DEF RegistryInv
  <2>2. CASE FileStep(self)
    BY <1>1, <1>2, <2>2, WriteSealedKeepsRegistry, BurnStepKeepsRegistry, PapersKeepRegistry,
       RegisterKeepsRegistry DEF RegistryInv, FileStep
  <2>3. CASE Drop(self, "idle") /\ (Returned(self) \/ crashes' # 0)
    BY <1>1, <1>2, <2>3, DropKeepsRegistry DEF RegistryInv
  <2> QED
    BY <1>4, <2>1, <2>2, <2>3 DEF PrimitiveStep
<1>5. CASE UNCHANGED vars
  BY <1>3, <1>5 DEF vars
<1> QED
  BY <1>1, <1>3, <1>4, <1>5, NextUsesPrimitive DEF BurnInv

\* Unless two saves of files.json undid each other, a listed file whose key is there opens
\* with it; unless a program died amid a seal, a key that can be read is listed
\* (fileburn.py seal, unseal, burn).
THEOREM RegistryAndKeysAgree == Spec => []RegistryMatchesKeys
<1>1. Init => RegistryInv
  BY BurnInvInit, RegistryInit DEF RegistryInv
<1>2. RegistryInv => RegistryMatchesKeys
  BY DEF RegistryInv, RInv
<1> QED
  BY <1>1, <1>2, RegistryStep, PTL DEF Spec

-----------------------------------------------------------------------------
(* How the walk moves, and what its steps do to the records and the tree.   *)

\* The kinds of step of the walk.
Stays == walk' = walk /\ burns' = burns
Ends ==
  /\ walk'.at = "idle" /\ walk'.todo = {} /\ walk'.entries = {} /\ walk'.version = 0
  /\ burns' = burns
Begins ==
  /\ walk.at = "idle" /\ walk'.at = "next" /\ walk'.entries = {} /\ walk'.version = 0
  /\ burns' = burns + 1 /\ walk'.burn = burns'
SameFile ==
  /\ walk'.burn = walk.burn /\ walk'.todo = walk.todo
  /\ walk'.path = walk.path /\ walk'.version = walk.version
  /\ burns' = burns
TakesUp ==
  /\ walk.at = "next" /\ walk'.at = "read"
  /\ walk'.path \in walk.todo /\ walk'.todo = walk.todo \ {walk'.path}
  /\ walk'.version = tree[walk'.path] /\ walk'.version # Missing
  /\ walk'.burn = walk.burn /\ walk'.entries = walk.entries /\ burns' = burns
Seals == SealFile /\ walk.at = "read" /\ walk'.at = "seal" /\ SameFile /\ walk'.entries = walk.entries
MovesOn ==
  /\ \/ walk.at = "seal" /\ walk'.at = "burn"
     \/ walk.at = "burn" /\ walk'.at = "unlink"
     \/ walk.at = "unlink" /\ walk'.at = "next"
     \/ walk.at = "next" /\ walk'.at = "manifest"
     \/ walk.at = "manifest" /\ walk'.at = "verify"
  /\ SameFile
  /\ walk.at # "unlink" => walk'.entries = walk.entries

LEMMA StepMoves ==
  ASSUME WalkTypeOK, NEW at \in Handling \cup {"next", "manifest", "verify"}, Step(at)
  PROVE  /\ walk'.at = at /\ walk'.burn = walk.burn /\ walk'.todo = walk.todo
         /\ walk'.path = walk.path /\ walk'.version = walk.version
         /\ walk'.entries = walk.entries
BY DEF Step, WalkTypeOK

LEMMA DieEnds == Die /\ burns' = burns => Ends
BY DEF Die, NoWalk, Ends

LEMMA WalkMoves ==
  ASSUME WalkIsSound, Next
  PROVE  Stays \/ Ends \/ Begins \/ TakesUp \/ Seals \/ MovesOn
<1>0. WalkTypeOK
  BY DEF WalkIsSound
<1>1. CASE BurnDirectory
  <2>1. PICK ps : ps = Present
    OBVIOUS
  <2>2. /\ walk' = [at |-> "next", burn |-> burns + 1, todo |-> ps, entries |-> {}, path |-> 0,
                   version |-> 0]
        /\ burns' = burns + 1 /\ walk.at = "idle"
    BY <1>1, <2>1 DEF BurnDirectory, NoWalk
  <2> QED
    BY <2>2 DEF Begins
<1>2. CASE ReadFile
  <2>1. CASE Die
    BY <1>2, <2>1, DieEnds DEF ReadFile
  <2>2. CASE ~Die
    <3>1. PICK p \in walk.todo : p = Here
      BY <1>0, <1>2, FirstIsListed DEF ReadFile, Here, WalkTypeOK
    <3>2. /\ walk' = [walk EXCEPT !.at = "read", !.path = p, !.version = tree[p],
                                  !.todo = walk.todo \ {p}]
          /\ walk.at = "next" /\ tree[p] # Missing /\ burns' = burns
      BY <1>0, <1>2, <2>2, <3>1 DEF ReadFile, WalkTypeOK
    <3>3. /\ walk'.at = "read" /\ walk'.burn = walk.burn /\ walk'.path = p
          /\ walk'.version = tree[p] /\ walk'.todo = walk.todo \ {p}
          /\ walk'.entries = walk.entries
      BY <1>0, <3>2 DEF WalkTypeOK
    <3> QED
      BY <3>1, <3>2, <3>3 DEF TakesUp
  <2> QED
    BY <2>1, <2>2
<1>3. CASE SealFile
  <2>1. Step("seal") /\ walk.at = "read" /\ burns' = burns
    BY <1>3 DEF SealFile
  <2> QED
    BY <1>0, <1>3, <2>1, StepMoves DEF Seals, SameFile, Handling
<1>4. CASE BurnSealed \/ OverwriteOriginal \/ RemoveDirs \/ WriteManifest
  <2>1. burns' = burns
    BY <1>4 DEF BurnSealed, OverwriteOriginal, RemoveDirs, WriteManifest
  <2>2. CASE Die
    BY <2>1, <2>2, DieEnds
  <2>3. CASE ~Die
    <3>1. PICK at \in {"burn", "unlink", "manifest", "verify"} :
            /\ Step(at)
            /\ at = "burn" => walk.at = "seal"
            /\ at = "unlink" => walk.at = "burn"
            /\ at = "manifest" => walk.at = "next"
            /\ at = "verify" => walk.at = "manifest"
      BY <1>4, <2>3 DEF BurnSealed, OverwriteOriginal, RemoveDirs, WriteManifest
    <3>2. at \in Handling \cup {"next", "manifest", "verify"}
      BY DEF Handling
    <3>3. /\ walk'.at = at /\ walk'.burn = walk.burn /\ walk'.todo = walk.todo
          /\ walk'.path = walk.path /\ walk'.version = walk.version
          /\ walk'.entries = walk.entries
      BY <1>0, <3>1, <3>2, StepMoves
    <3> QED
      BY <2>1, <3>1, <3>3 DEF MovesOn, SameFile
  <2> QED
    BY <2>2, <2>3
<1>5. CASE UnlinkOriginal
  <2>1. CASE Die
    BY <1>5, <2>1, DieEnds DEF UnlinkOriginal
  <2>2. CASE ~Die
    <3>1. walk.at = "unlink" /\ walk' = Listed /\ burns' = burns
      BY <1>5, <2>2 DEF UnlinkOriginal
    <3>2. /\ walk'.at = "next" /\ walk'.burn = walk.burn /\ walk'.todo = walk.todo
          /\ walk'.path = walk.path /\ walk'.version = walk.version
      BY <1>0, <3>1 DEF Listed, WalkTypeOK
    <3> QED
      BY <3>1, <3>2 DEF MovesOn, SameFile
  <2> QED
    BY <2>1, <2>2
<1>6. CASE VerifyManifest \/ Crash
  BY <1>6, DieEnds DEF VerifyManifest, Crash
<1>7. CASE \/ Call("dirburn") \/ Cli \/ Call("cli") \/ (\E p \in Paths : Edit(p) \/ AddLink(p))
           \/ CrashCli
  BY <1>7 DEF Call, Cli, wvars, Edit, AddLink, Disturb, CrashCli, Stays
<1> QED
  BY <1>1, <1>2, <1>3, <1>4, <1>5, <1>6, <1>7 DEF Next

\* Nothing new is on record.
NothingNew ==
  /\ content' = content
  /\ \A n \in Names, k \in Keys : Bears(n, k)' => Bears(n, k)

\* A seal puts a new key on record for its name.
NewRecord(n, data) ==
  /\ content' = Append(content, data) /\ certs' = certs
  /\ \A m \in Names, k \in Keys : Bears(m, k)' => Bears(m, k) \/ (m = n /\ k = Len(content) + 1)

LEMMA QuietSteps ==
  ASSUME PInv, NEW self \in Callers,
         FileStep(self) \/ Drop(self, "idle") \/ \E n \in OwnNames(self) : BeginBurn(self, n)
  PROVE  NothingNew
<1>1. CASE \E n \in OwnNames(self) : BeginBurn(self, n)
  BY <1>1, NamesAreOwned, BeginBurnKeeps DEF NothingNew, BeginBurn
<1>2. CASE Drop(self, "idle")
  BY <1>2, EndsKeep DEF NothingNew, Drop
<1>3. CASE FileStep(self)
  <2>1. content' = content
    BY <1>3 DEF FileStep, WriteSealed, Register, SkipMissing, Overwrite, Unlink, Certify,
                LogBurn, Reload, Forget
  <2>2. \A n \in Names, k \in Keys : Bears(n, k)' => Bears(n, k)
    BY <1>3, WriteSealedKeeps, BurnStepKeeps, PapersKeep, ReloadKeeps, EndsKeep DEF FileStep
  <2> QED
    BY <2>1, <2>2 DEF NothingNew
<1> QED
  BY <1>1, <1>2, <1>3

LEMMA RecordSteps ==
  ASSUME BurnInv, Next
  PROVE  \/ NothingNew /\ ~SealFile
         \/ SealFile /\ NewRecord(NameOf(walk.burn, walk.path), walk.version)
         \/ ~SealFile /\ UNCHANGED wvars /\ call'["dirburn"] = call["dirburn"]
              /\ \E n \in CliNames : NewRecord(n, 0)
<1>0. /\ PInv /\ WalkIsSound /\ CallFollowsWalk /\ PrimitiveTypeOK
      /\ "dirburn" \in Callers /\ "cli" \in Callers
  BY DEF BurnInv, PInv
<1>1. CASE SealFile
  <2>1. NameOf(walk.burn, walk.path) \in Names /\ walk.version \in Int
    <3>1. walk.burn \in 1..MaxBurns /\ walk.path \in Paths /\ walk.version \in Readable
      BY <1>0, <1>1 DEF SealFile, WalkIsSound, InHand, Handling
    <3>2. NameOf(walk.burn, walk.path) \in BurnNames
      BY <3>1 DEF NameOf, BurnNames
    <3> QED
      BY <3>1, <3>2 DEF Readable, Versions
  <2>2. PICK n \in Names, data \in Int : n = NameOf(walk.burn, walk.path) /\ data = walk.version
    BY <2>1
  <2>3. Seal("dirburn", n, data, FALSE)
    BY <1>1, <2>2 DEF SealFile
  <2>4. NewRecord(n, data)
    <3>1. content' = Append(content, data) /\ certs' = certs
      BY <2>3 DEF Seal
    <3>2. \A m \in Names, k \in Keys :
            Bears(m, k)' => Bears(m, k) \/ (m = n /\ k = Len(content) + 1)
      BY <1>0, <2>3, SealKeeps
    <3> QED
      BY <3>1, <3>2 DEF NewRecord
  <2> QED
    BY <1>1, <2>2, <2>4
<1>2. CASE Cli /\ ~SealFile
  <2>1. PICK n \in CliNames : Seal("cli", n, 0, TRUE) \/ BeginBurn("cli", n)
    BY <1>2 DEF Cli
  <2>2. n \in OwnNames("cli") /\ n \in Names /\ UNCHANGED wvars
    BY <1>2 DEF OwnNames, Cli
  <2>3. CASE BeginBurn("cli", n)
    BY <1>0, <1>2, <2>2, <2>3, QuietSteps
  <2>4. CASE Seal("cli", n, 0, TRUE)
    <3>1. content' = Append(content, 0) /\ certs' = certs
      BY <2>4 DEF Seal
    <3>2. \A m \in Names, k \in Keys :
            Bears(m, k)' => Bears(m, k) \/ (m = n /\ k = Len(content) + 1)
      <4>1. PICK data \in Int : data = 0
        OBVIOUS
      <4>2. PICK escrow \in BOOLEAN : escrow = TRUE
        OBVIOUS
      <4>3. PICK self \in Callers : self = "cli"
        OBVIOUS
      <4>4. Seal(self, n, data, escrow)
        BY <2>4, <4>1, <4>2, <4>3
      <4> QED
        BY <1>0, <2>2, <4>4, SealKeeps
    <3>3. call'["dirburn"] = call["dirburn"]
      <4>1. \E c : call' = [call EXCEPT !["cli"] = c]
        BY <2>4 DEF Seal
      <4> QED
        BY <1>0, <4>1, CallChanges
    <3> QED
      BY <1>2, <2>2, <3>1, <3>2, <3>3 DEF NewRecord
  <2> QED
    BY <2>1, <2>3, <2>4
<1>3. CASE BurnSealed /\ ~SealFile
  <2>1. NameOf(walk.burn, walk.path) \in OwnNames("dirburn")
    <3>1. walk.burn \in 1..MaxBurns /\ walk.path \in Paths
      BY <1>0, <1>3 DEF BurnSealed, WalkIsSound, InHand, Handling
    <3> QED
      BY <3>1 DEF NameOf, BurnNames, OwnNames
  <2>2. \/ Drop("dirburn", "idle")
        \/ \E n \in OwnNames("dirburn") : BeginBurn("dirburn", n)
    BY <1>3, <2>1 DEF BurnSealed, Drop, Abandon
  <2> QED
    BY <1>0, <1>3, <2>2, QuietSteps
<1>4. CASE (OverwriteOriginal \/ Crash \/ CrashCli) /\ ~SealFile
  <2>1. Drop("dirburn", "idle") \/ Drop("cli", "idle")
    BY <1>4 DEF OverwriteOriginal, Crash, CrashCli, Drop, Abandon
  <2> QED
    BY <1>0, <1>4, <2>1, QuietSteps
<1>5. CASE (Call("dirburn") \/ Call("cli")) /\ ~SealFile
  BY <1>0, <1>5, QuietSteps DEF Call
<1>6. CASE (\/ BurnDirectory \/ ReadFile \/ UnlinkOriginal \/ RemoveDirs \/ WriteManifest
            \/ VerifyManifest \/ (\E p \in Paths : Edit(p) \/ AddLink(p))) /\ ~SealFile
  <2>1. UNCHANGED fvars
    BY <1>6 DEF BurnDirectory, ReadFile, UnlinkOriginal, RemoveDirs, WriteManifest,
                VerifyManifest, Edit, AddLink, Disturb
  <2> QED
    BY <1>6, <2>1 DEF fvars, NothingNew, Bears
<1> QED
  BY <1>1, <1>2, <1>3, <1>4, <1>5, <1>6 DEF Next

\* What was sealed stays what it was.
LEMMA ContentStays ==
  ASSUME PInv, NothingNew \/ \E n \in Names, data \in Int : NewRecord(n, data)
  PROVE  /\ \A k \in Keys : k <= Len(content) => content'[k] = content[k]
         /\ \A n \in Names, k \in Keys : Bears(n, k) => content'[k] = content[k]
         /\ \A k \in Certified : content'[k] = content[k]
<1>1. \A k \in Keys : k <= Len(content) => content'[k] = content[k]
  <2>1. CASE NothingNew
    BY <2>1 DEF NothingNew
  <2>2. ASSUME NEW data \in Int, content' = Append(content, data), NEW k \in Keys,
               k <= Len(content)
        PROVE  content'[k] = content[k]
    BY <2>2 DEF PInv, PrimitiveTypeOK, Keys
  <2> QED
    BY <2>1, <2>2 DEF NewRecord
<1>2. Certified \subseteq Keys
  BY DEF PInv, PrimitiveTypeOK, Certified
<1> QED
  BY <1>1, <1>2 DEF PInv, KeysWereDrawn

-----------------------------------------------------------------------------
(* What is on record for a name is what was read for it.                    *)

NamesInv == NamesAreNew /\ SealedAsRead /\ CliSealsOthers

LEMMA NamesInit == Init => NamesInv
<1> SUFFICES ASSUME Init PROVE NamesInv
  OBVIOUS
<1>1. \A n \in Names, k \in Keys : ~Bears(n, k)
  <2>1. \A place \in Places, n \in Names : disk[place][n] = Missing
    BY DEF Init, FInit
  <2>2. \A n \in Names : registry[n] = Missing
    BY DEF Init, FInit
  <2>3. \A q \in Callers, n \in Names : call[q].key = Missing /\ call[q].reg[n] = Missing
    BY DEF Init, FInit, NoCall
  <2>4. Missing \notin Keys
    BY DEF Keys
  <2> QED
    BY <2>1, <2>2, <2>3, <2>4 DEF Bears
<1>2. walk.at = "idle"
  BY DEF Init, NoWalk
<1> QED
  BY <1>1, <1>2 DEF NamesInv, NamesAreNew, SealedAsRead, CliSealsOthers

\* No name is taken back from the list of those to be sealed.
LEMMA UnsealedBefore ==
  ASSUME WalkIsSound, Stays \/ Ends \/ Begins \/ TakesUp \/ Seals \/ MovesOn,
         NEW n \in BurnNames, Unsealed(n)'
  PROVE  Unsealed(n)
<1>0. n[1] \in Nat /\ burns \in Nat
  BY DEF BurnNames, WalkIsSound, WalkTypeOK
<1>1. CASE Stays
  BY <1>1 DEF Stays, Unsealed
<1>2. CASE Ends
  BY <1>2 DEF Ends, Unsealed
<1>3. CASE Begins
  BY <1>0, <1>3 DEF Begins, Unsealed
<1>4. CASE TakesUp
  BY <1>4 DEF TakesUp, Unsealed
<1>5. CASE Seals \/ MovesOn
  BY <1>5 DEF Seals, MovesOn, SameFile, Unsealed
<1> QED
  BY <1>1, <1>2, <1>3, <1>4, <1>5

LEMMA SealFileSeals ==
  ASSUME WalkIsSound, SealFile PROVE Seals
<1>1. Step("seal") /\ walk.at = "read" /\ burns' = burns /\ "seal" \in Handling
  BY DEF SealFile, Handling
<1> QED
  BY <1>1, StepMoves DEF Seals, SameFile, WalkIsSound

LEMMA NamesStep ==
  ASSUME BurnInv, NamesInv, Next PROVE NamesInv'
<1>0. /\ PInv /\ WalkIsSound /\ NamesAreNew /\ SealedAsRead /\ CliSealsOthers
      /\ Stays \/ Ends \/ Begins \/ TakesUp \/ Seals \/ MovesOn
  BY WalkMoves DEF BurnInv, NamesInv
<1>1. BurnNames \subseteq Names /\ CliNames \subseteq Names /\ BurnNames \cap CliNames = {}
  OBVIOUS
<1>2. ASSUME walk.at = "read"
      PROVE  /\ NameOf(walk.burn, walk.path) \in BurnNames
             /\ Unsealed(NameOf(walk.burn, walk.path))
             /\ walk.version \in Int
  <2>1. /\ walk.burn \in 1..MaxBurns /\ walk.path \in Paths /\ walk.burn = burns
        /\ walk.version \in Readable
    BY <1>0, <1>2 DEF WalkIsSound, InHand, Handling
  <2>2. PICK b \in 1..MaxBurns, p \in Paths : b = walk.burn /\ p = walk.path
    BY <2>1
  <2>3. <<b, p>> \in BurnNames /\ <<b, p>>[1] = b /\ <<b, p>>[2] = p
    BY DEF BurnNames
  <2> QED
    BY <1>2, <2>1, <2>2, <2>3 DEF NameOf, Unsealed, Readable, Versions
<1>3. CASE NothingNew /\ ~SealFile
  <2>1. \A n \in Names, k \in Keys : Bears(n, k)' => Bears(n, k) /\ content'[k] = content[k]
    BY <1>3 DEF NothingNew
  <2>2. NamesAreNew'
    BY <1>0, <1>1, <2>1, UnsealedBefore DEF NamesAreNew
  <2>3. SealedAsRead'
    <3>1. ASSUME walk'.at \in {"seal", "burn"}
          PROVE  /\ walk.at \in {"seal", "burn"} /\ walk'.version = walk.version
                 /\ NameOf(walk.burn, walk.path)' = NameOf(walk.burn, walk.path)
                 /\ NameOf(walk.burn, walk.path) \in Names
      <4>1. Stays \/ MovesOn
        BY <1>0, <1>3, <3>1 DEF Ends, Begins, TakesUp, Seals
      <4>2. /\ walk.at \in {"seal", "burn"} /\ walk'.version = walk.version
            /\ walk'.burn = walk.burn /\ walk'.path = walk.path
        BY <3>1, <4>1 DEF Stays, MovesOn, SameFile
      <4>3. walk.burn \in 1..MaxBurns /\ walk.path \in Paths
        BY <1>0, <4>2 DEF WalkIsSound, InHand, Handling
      <4> QED
        BY <4>2, <4>3 DEF NameOf, BurnNames
    <3> QED
      BY <1>0, <2>1, <3>1 DEF SealedAsRead
  <2>4. CliSealsOthers'
    BY <1>0, <1>1, <2>1 DEF CliSealsOthers
  <2> QED
    BY <2>2, <2>3, <2>4 DEF NamesInv
<1>4. ASSUME NEW n \in Names, NEW data \in Int, NewRecord(n, data)
      PROVE  /\ content'[Len(content) + 1] = data
             /\ \A m \in Names, k \in Keys : Bears(m, k) => content'[k] = content[k]
             /\ \A m \in Names, k \in Keys : m # n /\ Bears(m, k)' => Bears(m, k)
  <2>1. content'[Len(content) + 1] = data
    BY <1>0, <1>4 DEF NewRecord, PInv, PrimitiveTypeOK
  <2>2. \A m \in Names, k \in Keys : Bears(m, k) => content'[k] = content[k]
    BY <1>0, <1>4, ContentStays
  <2> QED
    BY <1>4, <2>1, <2>2 DEF NewRecord
<1>5. CASE SealFile /\ NewRecord(NameOf(walk.burn, walk.path), walk.version)
  <2>1. /\ walk.at = "read" /\ walk'.at = "seal" /\ SameFile
    BY <1>0, <1>5, SealFileSeals DEF Seals
  <2>2. PICK n \in BurnNames, data \in Int : n = NameOf(walk.burn, walk.path) /\ data = walk.version
    BY <1>2, <2>1
  <2>3. /\ n \in Names /\ NewRecord(n, data) /\ Unsealed(n)
        /\ \A k \in Keys : ~Bears(n, k)
    BY <1>0, <1>2, <1>5, <2>1, <2>2 DEF NamesAreNew
  <2>4. /\ content'[Len(content) + 1] = data
        /\ \A m \in Names, k \in Keys : Bears(m, k) => content'[k] = content[k]
        /\ \A m \in Names, k \in Keys : m # n /\ Bears(m, k)' => Bears(m, k)
    BY <1>4, <2>3
  <2>5. ~Unsealed(n)'
    <3>1. walk.path \notin walk.todo /\ walk.burn = burns /\ burns \in Nat
      BY <1>0, <2>1 DEF WalkIsSound, InHand, Handling, WalkTypeOK
    <3>2. n[1] = walk.burn /\ n[2] = walk.path
      BY <2>2 DEF NameOf
    <3> QED
      BY <2>1, <3>1, <3>2 DEF Unsealed, SameFile
  <2>6. NamesAreNew'
    BY <1>0, <1>1, <2>4, <2>5, UnsealedBefore DEF NamesAreNew
  <2>7. SealedAsRead'
    <3>1. NameOf(walk.burn, walk.path)' = n /\ walk'.version = data
      BY <2>1, <2>2 DEF SameFile, NameOf
    <3>2. \A k \in Keys : Bears(n, k)' => k = Len(content) + 1
      BY <2>3 DEF NewRecord
    <3> QED
      BY <2>4, <3>1, <3>2 DEF SealedAsRead
  <2>8. CliSealsOthers'
    BY <1>0, <1>1, <2>4 DEF CliSealsOthers
  <2> QED
    BY <2>6, <2>7, <2>8 DEF NamesInv
<1>6. ASSUME UNCHANGED wvars, NEW n \in CliNames, NewRecord(n, 0) PROVE NamesInv'
  <2>1. n \in Names /\ 0 \in Int
    BY <1>1
  <2>2. /\ content'[Len(content) + 1] = 0
        /\ \A m \in Names, k \in Keys : Bears(m, k) => content'[k] = content[k]
        /\ \A m \in Names, k \in Keys : m # n /\ Bears(m, k)' => Bears(m, k)
    BY <1>4, <1>6, <2>1
  <2>3. NamesAreNew'
    BY <1>0, <1>1, <1>6, <2>2 DEF NamesAreNew, Unsealed, wvars
  <2>4. SealedAsRead'
    <3>1. ASSUME walk.at \in {"seal", "burn"} PROVE NameOf(walk.burn, walk.path) \in BurnNames
      <4>1. walk.burn \in 1..MaxBurns /\ walk.path \in Paths
        BY <1>0, <3>1 DEF WalkIsSound, InHand, Handling
      <4> QED
        BY <4>1 DEF NameOf, BurnNames
    <3>2. walk' = walk
      BY <1>6 DEF wvars
    <3> QED
      BY <1>0, <1>1, <2>2, <3>1, <3>2 DEF SealedAsRead, NameOf
  <2>5. CliSealsOthers'
    <3>1. \A k \in Keys : Bears(n, k)' => Bears(n, k) \/ k = Len(content) + 1
      BY <1>6, <2>1 DEF NewRecord
    <3> QED
      BY <1>0, <1>1, <2>2, <3>1 DEF CliSealsOthers
  <2> QED
    BY <2>3, <2>4, <2>5 DEF NamesInv
<1> QED
  BY <1>3, <1>5, <1>6, RecordSteps

-----------------------------------------------------------------------------
(* What a step does to the tree and to the certificates.                    *)

TreeStays ==
  /\ UNCHANGED <<tree, target, edits>>
  /\ walk.at \in {"burn", "unlink"} => Stays \/ Ends
  /\ standing' = standing \/ standing' = (Present # {})
  /\ \/ manifests' = manifests
     \/ /\ walk.at = "manifest" /\ walk'.at = "verify"
        /\ manifests' = manifests \cup {walk.entries}
Wipes ==
  /\ walk.at = "burn" /\ walk'.at = "unlink" /\ MovesOn
  /\ call["dirburn"].op = "none" /\ tree[walk.path] # Missing
  /\ WriteTo(file[walk.path], Scrap)
  /\ UNCHANGED <<file, soft, linked, content, certs, standing, manifests, edits>>
Removes ==
  /\ walk.at = "unlink" /\ walk'.at = "next" /\ MovesOn
  /\ tree[walk.path] # Missing
  /\ tree' = [tree EXCEPT ![walk.path] = Missing]
  /\ walk'.entries = walk.entries \cup {<<walk.path, walk.version>>}
  /\ UNCHANGED <<target, content, certs, standing, manifests, edits>>
Disturbs == \E p \in Paths : Edit(p) \/ AddLink(p)

LEMMA TreeMoves ==
  ASSUME BurnInv, Next
  PROVE  TreeStays \/ Wipes \/ Removes \/ Disturbs
<1>0. /\ PInv /\ WalkIsSound /\ WalkTypeOK /\ CallFollowsWalk
      /\ edits \in Int
      /\ "dirburn" \in Callers /\ "cli" \in Callers
  BY DEF BurnInv, WalkIsSound, WalkTypeOK
<1>1. CASE BurnDirectory \/ ReadFile \/ SealFile \/ BurnSealed \/ RemoveDirs \/ WriteManifest
           \/ VerifyManifest
  <2>1. walk.at \notin {"burn", "unlink"}
    BY <1>1 DEF BurnDirectory, ReadFile, SealFile, BurnSealed, RemoveDirs, WriteManifest,
                VerifyManifest
  <2>2. CASE BurnDirectory \/ ReadFile \/ SealFile \/ BurnSealed \/ RemoveDirs \/ VerifyManifest
    BY <2>1, <2>2 DEF BurnDirectory, ReadFile, SealFile, BurnSealed, RemoveDirs,
                      VerifyManifest, TreeStays
  <2>3. CASE WriteManifest
    <3>1. walk'.at = "verify"
      <4>1. "verify" \in Handling \cup {"next", "manifest", "verify"}
        OBVIOUS
      <4>2. Step("verify")
        BY <2>3 DEF WriteManifest
      <4> QED
        BY <1>0, <4>1, <4>2, StepMoves
    <3> QED
      BY <2>1, <2>3, <3>1 DEF WriteManifest, TreeStays
  <2> QED
    BY <1>1, <2>2, <2>3
<1>2. CASE OverwriteOriginal
  <2>0. /\ walk.at = "burn" /\ burns' = burns
        /\ UNCHANGED <<file, soft, linked, content, certs, standing, manifests, edits>>
    BY <1>2 DEF OverwriteOriginal
  <2>1. CASE Die /\ UNCHANGED <<tree, outside>>
    BY <2>0, <2>1, DieEnds DEF TreeStays, target
  <2>2. CASE ~(Die /\ UNCHANGED <<tree, outside>>)
    <3>1. /\ Step("unlink") /\ WriteTo(file[walk.path], Scrap)
          /\ tree[walk.path] # Missing
      BY <1>2, <2>2 DEF OverwriteOriginal
    <3>2. MovesOn /\ walk'.at = "unlink"
      <4>1. "unlink" \in Handling \cup {"next", "manifest", "verify"}
        BY DEF Handling
      <4> QED
        BY <1>0, <2>0, <3>1, <4>1, StepMoves DEF MovesOn, SameFile
    <3>3. call["dirburn"].op = "none"
      <4>1. Returned("dirburn")
        BY <1>2 DEF OverwriteOriginal, Returned
      <4> QED
        BY <1>0, <4>1, StageFacts
    <3> QED
      BY <2>0, <3>1, <3>2, <3>3 DEF Wipes
  <2> QED
    BY <2>1, <2>2
<1>3. CASE UnlinkOriginal
  <2>0. /\ walk.at = "unlink" /\ burns' = burns
        /\ UNCHANGED <<target, content, certs, standing, manifests, edits>>
    BY <1>3 DEF UnlinkOriginal, fvars
  <2>1. CASE Die /\ UNCHANGED tree
    BY <2>0, <2>1, DieEnds DEF TreeStays
  <2>2. CASE ~(Die /\ UNCHANGED tree)
    <3>1. /\ walk' = Listed /\ tree' = [tree EXCEPT ![walk.path] = Missing]
          /\ tree[walk.path] # Missing
      BY <1>3, <2>2 DEF UnlinkOriginal
    <3>2. /\ walk'.at = "next" /\ walk'.burn = walk.burn /\ walk'.todo = walk.todo
          /\ walk'.path = walk.path /\ walk'.version = walk.version
          /\ walk'.entries = walk.entries \cup {<<walk.path, walk.version>>}
      BY <1>0, <3>1 DEF Listed, WalkTypeOK
    <3> QED
      BY <2>0, <3>1, <3>2 DEF Removes, MovesOn, SameFile
  <2> QED
    BY <2>1, <2>2
<1>6. CASE Call("dirburn") \/ Cli \/ Call("cli") \/ CrashCli
  BY <1>6 DEF Call, Cli, CrashCli, wvars, TreeStays, Stays
<1>7. CASE Crash
  BY <1>7, DieEnds DEF Crash, TreeStays
<1> QED
  BY <1>1, <1>2, <1>3, <1>6, <1>7 DEF Next, Disturbs

\* Only the burn's Certify writes a certificate.
LEMMA CertsGrow ==
  ASSUME Next
  PROVE  \/ certs' = certs
         \/ UNCHANGED wvars /\ content' = content
              /\ \E self \in {"dirburn", "cli"} : Certify(self)
<1>1. ASSUME NEW self \in {"dirburn", "cli"}, Call(self)
      PROVE  certs' = certs \/ (UNCHANGED wvars /\ content' = content /\ Certify(self))
  BY <1>1 DEF Call, FileStep, WriteSealed, Register, SkipMissing, Overwrite, Unlink, Certify,
              LogBurn, Reload, Forget
<1>2. CASE Cli
  BY <1>2 DEF Cli, Seal, BeginBurn
<1>3. CASE SealFile \/ BurnSealed
  BY <1>3 DEF SealFile, BurnSealed, Seal, BeginBurn
<1>4. CASE \/ BurnDirectory \/ ReadFile \/ OverwriteOriginal \/ UnlinkOriginal
           \/ RemoveDirs \/ WriteManifest \/ VerifyManifest
           \/ (\E p \in Paths : Edit(p) \/ AddLink(p)) \/ Crash \/ CrashCli
  BY <1>4 DEF BurnDirectory, ReadFile, OverwriteOriginal, UnlinkOriginal, RemoveDirs,
              WriteManifest, VerifyManifest, Edit, AddLink, Disturb, Crash, CrashCli, fvars
<1> QED
  BY <1>1, <1>2, <1>3, <1>4 DEF Next

\* What is certified stays certified, and what is newly certified is the file at hand.
LEMMA CertifiedVersionsGrow ==
  ASSUME RegistryInv, NamesInv, Next
  PROVE  /\ CertifiedVersions \subseteq CertifiedVersions'
         /\ \/ CertifiedVersions' = CertifiedVersions
            \/ /\ UNCHANGED wvars /\ walk.at = "burn"
               /\ CertifiedVersions' \subseteq CertifiedVersions \cup {walk.version}
<1>0. BurnInv /\ PInv /\ RInv /\ CallFollowsWalk /\ Certified \subseteq Keys
  BY DEF RegistryInv, BurnInv, PInv, PrimitiveTypeOK, Certified
<1>1. \A k \in Certified : content'[k] = content[k]
  <2>1. NothingNew \/ \E n \in Names, data \in Int : NewRecord(n, data)
    <3>1. CASE NothingNew
      BY <3>1
    <3>2. CASE SealFile /\ NewRecord(NameOf(walk.burn, walk.path), walk.version)
      <4>1. walk.burn \in 1..MaxBurns /\ walk.path \in Paths /\ walk.version \in Readable
        BY <1>0, <3>2 DEF SealFile, BurnInv, WalkIsSound, InHand, Handling
      <4>2. NameOf(walk.burn, walk.path) \in Names /\ walk.version \in Int
        BY <4>1 DEF NameOf, BurnNames, Readable, Versions
      <4> QED
        BY <3>2, <4>2
    <3>3. ASSUME NEW n \in CliNames, NewRecord(n, 0)
          PROVE  \E m \in Names, data \in Int : NewRecord(m, data)
      <4>1. n \in Names /\ 0 \in Int
        OBVIOUS
      <4> QED
        BY <3>3, <4>1
    <3> QED
      BY <1>0, <3>1, <3>2, <3>3, RecordSteps
  <2> QED
    BY <1>0, <2>1, ContentStays
<1>2. CASE certs' = certs
  <2>1. Certified' = Certified
    BY <1>2 DEF Certified
  <2> QED
    BY <1>1, <2>1 DEF CertifiedVersions
<1>3. ASSUME NEW self \in {"dirburn", "cli"}, Certify(self), UNCHANGED wvars, content' = content
      PROVE  /\ CertifiedVersions \subseteq CertifiedVersions'
             /\ \/ CertifiedVersions' = CertifiedVersions
                \/ /\ walk.at = "burn"
                   /\ CertifiedVersions' \subseteq CertifiedVersions \cup {walk.version}
  <2>0. self \in Callers
    BY <1>3
  <2>1. call[self].op = "burn"
    BY <1>0, <1>3, <2>0, StageFacts DEF Certify
  <2>2. PICK n \in Names, k \in Keys : n = call[self].name /\ k = call[self].key
    BY <1>0, <2>0, <2>1 DEF PInv, CallsAreSound, Stage
  <2>3. Bears(n, k)
    BY <2>0, <2>2, BearsFacts
  <2>4. Certified \subseteq Certified' /\ Certified' \subseteq Certified \cup {k}
    <3>1. certs' = certs \cup {<<n, k>>}
      BY <1>3, <2>2 DEF Certify
    <3>2. \A c \in certs' : c \in certs \/ c[2] = k
      BY <3>1
    <3> QED
      BY <3>1, <3>2 DEF Certified
  <2>5. /\ CertifiedVersions \subseteq CertifiedVersions'
        /\ CertifiedVersions' \subseteq CertifiedVersions \cup ({content[k]} \cap Versions)
    BY <1>3, <2>4 DEF CertifiedVersions
  <2>6. CASE self = "dirburn"
    <3>1. walk.at = "burn" /\ n = NameOf(walk.burn, walk.path)
      BY <1>0, <2>1, <2>2, <2>6 DEF CallFollowsWalk
    <3>2. content[k] = walk.version
      BY <2>3, <3>1 DEF NamesInv, SealedAsRead
    <3> QED
      BY <2>5, <3>1, <3>2
  <2>7. CASE self = "cli"
    <3>1. n \in CliNames
      BY <1>0, <2>0, <2>1, <2>2, <2>7 DEF RInv, NamesApart, OwnNames
    <3>2. content[k] = 0
      BY <2>3, <3>1 DEF NamesInv, CliSealsOthers
    <3>3. content[k] \notin Versions
      BY <3>2 DEF Versions
    <3> QED
      BY <2>5, <3>3
  <2> QED
    BY <1>3, <2>6, <2>7
<1> QED
  BY <1>2, <1>3, CertsGrow

-----------------------------------------------------------------------------
(* The versions: each is at one path, and is certified before it goes.      *)

LEMMA ReadableFacts ==
  /\ Missing \notin Readable /\ Missing \notin Versions /\ Scrap \notin Versions
  /\ Versions \subseteq Int /\ Readable = Versions \cup {Scrap}
BY DEF Readable, Versions

\* The version another program writes is none that was written before.
LEMMA NextIsFresh ==
  ASSUME WalkTypeOK
  PROVE  /\ NextVersion \in Nat /\ NextVersion \notin Written /\ NextVersion # Scrap
         /\ NextVersion # Missing /\ Written \subseteq Nat /\ Beyond \in Written
         /\ edits' = edits => Written' = Written
         /\ edits' = edits + 1 => Written \subseteq Written' /\ NextVersion \in Written'
<1>1. PICK n \in Nat, e \in Nat : n = Beyond /\ e = edits /\ n > 0
  BY DEF WalkTypeOK, Beyond
<1>2. Written = 1..(n + e) /\ NextVersion = n + e + 1
  BY <1>1 DEF Written, NextVersion
<1>3. edits' = edits + 1 => Written' = 1..(n + e + 1)
  BY <1>1 DEF Written
<1>4. edits' = edits => Written' = Written
  BY DEF Written
<1> QED
  BY <1>1, <1>2, <1>3, <1>4

\* A write in place is found under every name of the file, a new file at its path.
LEMMA EditFacts ==
  ASSUME WalkTypeOK, LinkTypeOK, NEW r \in Paths, Edit(r)
  PROVE  /\ edits' = edits + 1 /\ standing /\ standing' = standing /\ linked' = linked
         /\ UNCHANGED <<fvars, walk, manifests, burns>>
         /\ \/ /\ r \in Present /\ file' = file /\ soft' = soft
               /\ outside' = IF file[r] = Beyond THEN NextVersion ELSE outside
               /\ \A q \in Paths : tree'[q] = IF q \in Present /\ file[q] = file[r]
                                              THEN NextVersion ELSE tree[q]
            \/ /\ outside' = outside /\ soft' = soft \ {r}
               /\ file' \in [Paths -> Written \cup {NextVersion}]
               /\ \A q \in Paths : /\ tree'[q] = IF q = r THEN NextVersion ELSE tree[q]
                                   /\ file'[q] = IF q = r THEN NextVersion ELSE file[q]
<1>1. Disturb /\ linked' = linked
  BY DEF Edit
<1>2. CASE r \in Present /\ WriteTo(file[r], NextVersion) /\ UNCHANGED <<file, soft>>
  BY <1>1, <1>2 DEF Disturb, WriteTo
<1>3. CASE /\ tree' = [tree EXCEPT ![r] = NextVersion] /\ file' = [file EXCEPT ![r] = NextVersion]
           /\ soft' = soft \ {r} /\ UNCHANGED outside
  BY <1>1, <1>3 DEF Disturb, WalkTypeOK, LinkTypeOK
<1> QED
  BY <1>2, <1>3 DEF Edit

\* A link takes over what the other name leads to, and marks both.
LEMMA AddLinkFacts ==
  ASSUME WalkTypeOK, LinkTypeOK, NEW r \in Paths, AddLink(r)
  PROVE  /\ edits' = edits + 1 /\ standing /\ standing' = standing
         /\ UNCHANGED <<fvars, outside, walk, manifests, burns>>
         /\ linked' \in [Paths -> Nat] /\ linked'[r] = burns + 1 /\ r \notin NeverLinked'
         /\ soft' \subseteq soft \cup {r} /\ file' \in [Paths -> Written]
         /\ \A q \in Paths : /\ q # r => tree'[q] = tree[q] /\ file'[q] = file[q]
                             /\ linked'[q] \in {linked[q], burns + 1}
         /\ \/ \E q \in Present \ {r} : /\ tree'[r] = tree[q] /\ file'[r] = file[q]
                                        /\ q \notin NeverLinked'
            \/ tree'[r] = outside /\ file'[r] = Beyond
<1>1. Disturb /\ outside' = outside /\ burns \in Nat /\ burns + 1 # 0
  BY DEF AddLink, WalkTypeOK
<1>2. ASSUME NEW q \in Present \ {r},
             tree' = [tree EXCEPT ![r] = tree[q]], file' = [file EXCEPT ![r] = file[q]],
             soft' = soft \ {r}, linked' = [linked EXCEPT ![r] = burns + 1, ![q] = burns + 1]
      PROVE  /\ linked' \in [Paths -> Nat] /\ linked'[r] = burns + 1 /\ linked'[q] = burns + 1
             /\ soft' \subseteq soft \cup {r} /\ file' \in [Paths -> Written]
             /\ \A p \in Paths : /\ p # r => tree'[p] = tree[p] /\ file'[p] = file[p]
                                 /\ linked'[p] \in {linked[p], burns + 1}
             /\ tree'[r] = tree[q] /\ file'[r] = file[q] /\ q \in Paths
  BY <1>1, <1>2 DEF WalkTypeOK, LinkTypeOK, Present
<1>3. ASSUME tree' = [tree EXCEPT ![r] = outside], file' = [file EXCEPT ![r] = Beyond],
             soft' \in {soft \ {r}, soft \cup {r}}, linked' = [linked EXCEPT ![r] = burns + 1]
      PROVE  /\ linked' \in [Paths -> Nat] /\ linked'[r] = burns + 1
             /\ soft' \subseteq soft \cup {r} /\ file' \in [Paths -> Written]
             /\ \A p \in Paths : /\ p # r => tree'[p] = tree[p] /\ file'[p] = file[p]
                                 /\ linked'[p] \in {linked[p], burns + 1}
             /\ tree'[r] = outside /\ file'[r] = Beyond
  <2>1. Beyond \in Written
    BY NextIsFresh
  <2> QED
    BY <1>1, <1>3, <2>1 DEF WalkTypeOK, LinkTypeOK
<1>4. \A p \in Paths : linked'[p] = burns + 1 => p \notin NeverLinked'
  BY <1>1 DEF NeverLinked
<1>5. edits' = edits + 1 /\ standing /\ standing' = standing
      /\ UNCHANGED <<fvars, outside, walk, manifests, burns>>
  BY <1>1 DEF Disturb
<1>6. CASE \E q \in Present \ {r} :
             /\ tree' = [tree EXCEPT ![r] = tree[q]] /\ file' = [file EXCEPT ![r] = file[q]]
             /\ soft' = soft \ {r} /\ linked' = [linked EXCEPT ![r] = burns + 1, ![q] = burns + 1]
  BY <1>2, <1>4, <1>5, <1>6
<1>7. CASE /\ tree' = [tree EXCEPT ![r] = outside] /\ file' = [file EXCEPT ![r] = Beyond]
           /\ soft' \in {soft \ {r}, soft \cup {r}} /\ linked' = [linked EXCEPT ![r] = burns + 1]
  BY <1>3, <1>4, <1>5, <1>7
<1> QED
  BY <1>6, <1>7 DEF AddLink

\* What the burn itself leaves: what was there, scrap under the names of one file, or nothing
\* at one path.
LEMMA BurnFacts ==
  ASSUME BurnInv, TreeStays \/ Wipes \/ Removes
  PROVE  /\ edits' = edits /\ file' = file /\ soft' = soft /\ linked' = linked
         /\ NeverLinked' = NeverLinked
         /\ outside' \in {outside, Scrap}
         /\ \A q \in Paths : /\ tree'[q] \in {tree[q], Scrap, Missing}
                             /\ tree[q] = Missing => tree'[q] = Missing
<1>0. /\ WalkTypeOK /\ tree \in [Paths -> Readable \cup {Missing}]
      /\ walk.at \in Handling => walk.path \in Paths
  BY DEF BurnInv, WalkIsSound, WalkTypeOK, InHand
<1>1. CASE TreeStays
  BY <1>1 DEF TreeStays, target, NeverLinked
<1>2. CASE Wipes
  <2>1. \A q \in Paths : tree'[q] = IF q \in Present /\ file[q] = file[walk.path] THEN Scrap ELSE tree[q]
    BY <1>0, <1>2, WritesKeepTypes DEF Wipes, Readable
  <2>2. outside' \in {outside, Scrap}
    BY <1>2 DEF Wipes, WriteTo
  <2> QED
    BY <1>2, <2>1, <2>2 DEF Wipes, Present, NeverLinked
<1>3. CASE Removes
  <2>1. walk.path \in Paths
    BY <1>0, <1>3 DEF Removes, Handling
  <2>2. \A q \in Paths : tree'[q] \in {tree[q], Missing}
    BY <1>0, <1>3, <2>1 DEF Removes
  <2> QED
    BY <1>3, <2>2 DEF Removes, target, NeverLinked
<1> QED
  BY <1>1, <1>2, <1>3

\* All steps together: a path without links keeps its version, loses it or gets a new one, and
\* at most one path appears, by a program's doing.
LEMMA TreeFacts ==
  ASSUME BurnInv, LinkTypeOK, Next
  PROVE  /\ edits' \in {edits, edits + 1}
         /\ NeverLinked' \subseteq NeverLinked
         /\ \A q \in NeverLinked' : tree'[q] \in {tree[q], Scrap, Missing, NextVersion}
         /\ \/ edits' = edits /\ \A q \in Paths : tree[q] = Missing => tree'[q] = Missing
            \/ /\ edits' = edits + 1
               /\ \E r \in Paths : \A q \in Paths : q # r /\ tree[q] = Missing => tree'[q] = Missing
<1>0. WalkTypeOK
  BY DEF BurnInv, WalkIsSound
<1>1. CASE TreeStays \/ Wipes \/ Removes
  BY <1>1, BurnFacts DEF NeverLinked
<1>2. ASSUME NEW r \in Paths, Edit(r)
      PROVE  /\ edits' = edits + 1 /\ NeverLinked' = NeverLinked
             /\ \A q \in Paths : tree'[q] \in {tree[q], NextVersion}
             /\ \A q \in Paths : q # r /\ tree[q] = Missing => tree'[q] = Missing
  BY <1>0, <1>2, EditFacts DEF NeverLinked, Present
<1>3. ASSUME NEW r \in Paths, AddLink(r)
      PROVE  /\ edits' = edits + 1 /\ NeverLinked' \subseteq NeverLinked /\ r \notin NeverLinked'
             /\ \A q \in Paths : q # r => tree'[q] = tree[q]
  <2>1. burns + 1 # 0
    BY <1>0 DEF WalkTypeOK
  <2> QED
    BY <1>0, <1>3, <2>1, AddLinkFacts DEF NeverLinked
<1>4. NeverLinked' \subseteq Paths
  BY DEF NeverLinked
<1>5. CASE Disturbs
  <2>1. PICK r \in Paths : Edit(r) \/ AddLink(r)
    BY <1>5 DEF Disturbs
  <2>2. CASE Edit(r)
    BY <1>2, <1>4, <2>2
  <2>3. CASE AddLink(r)
    BY <1>3, <1>4, <2>3
  <2> QED
    BY <2>1, <2>2, <2>3
<1> QED
  BY <1>1, <1>5, TreeMoves

LEMMA VersionsStep ==
  ASSUME RegistryInv, NamesInv, VersionsAreWritten, LinkTypeOK, Next
  PROVE  VersionsAreWritten' /\ LinkTypeOK'
<1>0. /\ BurnInv /\ PInv /\ WalkIsSound /\ PrimitiveTypeOK /\ WalkTypeOK
      /\ Stays \/ Ends \/ Begins \/ TakesUp \/ Seals \/ MovesOn
  BY WalkMoves DEF RegistryInv, BurnInv, PInv, WalkIsSound
<1>1. /\ \A p \in Paths : tree[p] \in Versions => tree[p] \in Written
      /\ outside \in Versions => outside \in Written
      /\ \A k \in DOMAIN content : content[k] \in Versions => content[k] \in Written
      /\ walk.version \in Versions => walk.version \in Written
  BY DEF VersionsAreWritten
<1>2. edits' \in {edits, edits + 1}
  BY <1>0, TreeFacts
<1>3. Written \subseteq Written' /\ (edits' = edits + 1 => NextVersion \in Written')
  BY <1>0, <1>2, NextIsFresh
<1>4. /\ \A p \in Paths : tree'[p] \in Versions => tree'[p] \in Written'
      /\ outside' \in Versions => outside' \in Written'
      /\ LinkTypeOK'
  <2>1. CASE TreeStays \/ Wipes \/ Removes
    BY <1>0, <1>1, <1>3, <2>1, BurnFacts, ReadableFacts DEF LinkTypeOK
  <2>2. ASSUME NEW r \in Paths, Edit(r)
        PROVE  /\ \A p \in Paths : tree'[p] \in Versions => tree'[p] \in Written'
               /\ outside' \in Versions => outside' \in Written'
               /\ LinkTypeOK'
    <3>1. /\ edits' = edits + 1 /\ linked' = linked
          /\ \A p \in Paths : tree'[p] \in {tree[p], NextVersion}
          /\ outside' \in {outside, NextVersion}
      BY <1>0, <2>2, EditFacts
    <3>2. file' \in [Paths -> Written \cup {NextVersion}]
      BY <1>0, <2>2, EditFacts DEF LinkTypeOK
    <3>3. file' \in [Paths -> Written']
      BY <1>3, <3>1, <3>2
    <3> QED
      BY <1>1, <1>3, <3>1, <3>3 DEF LinkTypeOK
  <2>3. ASSUME NEW r \in Paths, AddLink(r)
        PROVE  /\ \A p \in Paths : tree'[p] \in Versions => tree'[p] \in Written'
               /\ outside' \in Versions => outside' \in Written'
               /\ LinkTypeOK'
    <3>1. /\ outside' = outside /\ linked' \in [Paths -> Nat]
          /\ \A p \in Paths : tree'[p] = tree[p] \/ tree'[p] = outside
                              \/ \E q \in Paths : tree'[p] = tree[q]
      BY <1>0, <2>3, AddLinkFacts DEF Present
    <3>2. file' \in [Paths -> Written]
      BY <1>0, <2>3, AddLinkFacts
    <3>3. file' \in [Paths -> Written']
      BY <1>3, <3>2
    <3> QED
      BY <1>1, <1>3, <3>1, <3>3 DEF LinkTypeOK
  <2> QED
    BY <1>0, <2>1, <2>2, <2>3, TreeMoves DEF Disturbs
<1>9. walk'.version \in Versions => walk'.version \in Written'
  <2>1. CASE TakesUp
    <3>1. walk'.path \in Paths /\ walk'.version = tree[walk'.path]
      BY <1>0, <2>1 DEF TakesUp, WalkTypeOK
    <3> QED
      BY <1>1, <1>3, <3>1
  <2>2. CASE ~TakesUp
    <3>1. walk'.version \in {walk.version, 0}
      BY <1>0, <2>2 DEF Stays, Ends, Begins, Seals, MovesOn, SameFile
    <3> QED
      BY <1>1, <1>3, <3>1, ReadableFacts
  <2> QED
    BY <2>1, <2>2
<1>10. ASSUME NEW k \in DOMAIN content', content'[k] \in Versions PROVE content'[k] \in Written'
  <2>1. CASE content' = content
    BY <1>1, <1>3, <1>10, <2>1
  <2>2. ASSUME NEW data \in Int, content' = Append(content, data),
               data \in Versions => data \in Written
        PROVE  content'[k] \in Written'
    <3>1. /\ content \in Seq(Int) /\ k \in 1..(Len(content) + 1)
      BY <1>0, <1>10, <2>2 DEF PrimitiveTypeOK
    <3>2. CASE k = Len(content) + 1
      BY <1>3, <1>10, <2>2, <3>1, <3>2
    <3>3. CASE k # Len(content) + 1
      <4>1. k \in DOMAIN content /\ content'[k] = content[k]
        BY <2>2, <3>1, <3>3
      <4> QED
        BY <1>1, <1>3, <1>10, <4>1
    <3> QED
      BY <3>2, <3>3
  <2>3. CASE SealFile /\ NewRecord(NameOf(walk.burn, walk.path), walk.version)
    <3>1. walk.version \in Readable
      BY <1>0, <2>3 DEF SealFile, WalkIsSound, InHand, Handling
    <3>2. PICK data \in Int : data = walk.version
      BY <3>1 DEF Readable, Versions
    <3>3. data \in Versions => data \in Written
      BY <1>1, <3>2
    <3>4. content' = Append(content, data)
      BY <2>3, <3>2 DEF NewRecord
    <3> QED
      BY <2>2, <3>3, <3>4
  <2>4. ASSUME NEW n \in CliNames, NewRecord(n, 0) PROVE content'[k] \in Written'
    BY <2>2, <2>4, ReadableFacts DEF NewRecord
  <2> QED
    BY <1>0, <2>1, <2>3, <2>4, RecordSteps DEF NothingNew
<1> QED
  BY <1>4, <1>9, <1>10 DEF VersionsAreWritten

\* A path without links stays the only name of its file.
LEMMA NamedOnceStep ==
  ASSUME BurnInv, LinkTypeOK, NamedOnce, Next PROVE NamedOnce'
<1>0. WalkTypeOK /\ file \in [Paths -> Written] /\ NeverLinked \subseteq Paths
  BY DEF BurnInv, WalkIsSound, LinkTypeOK, NeverLinked
<1>1. /\ \A p, q \in Paths : p # q /\ file[p] = file[q] => p \notin NeverLinked
      /\ \A p \in NeverLinked : file[p] # Beyond
  BY DEF NamedOnce
<1>2. CASE TreeStays \/ Wipes \/ Removes
  BY <1>1, <1>2, BurnFacts DEF NamedOnce
<1>3. ASSUME NEW r \in Paths, Edit(r) PROVE NamedOnce'
  <2>1. NeverLinked' = NeverLinked
    BY <1>0, <1>3, EditFacts DEF NeverLinked
  <2>2. CASE file' = file
    BY <1>1, <2>1, <2>2 DEF NamedOnce
  <2>3. CASE \A q \in Paths : file'[q] = IF q = r THEN NextVersion ELSE file[q]
    <3>1. \A q \in Paths : file[q] # NextVersion
      BY <1>0, NextIsFresh
    <3>2. Beyond # NextVersion
      BY <1>0, NextIsFresh
    <3> QED
      BY <1>0, <1>1, <2>1, <2>3, <3>1, <3>2 DEF NamedOnce
  <2> QED
    BY <1>0, <1>3, <2>2, <2>3, EditFacts
<1>4. ASSUME NEW r \in Paths, AddLink(r) PROVE NamedOnce'
  <2>1. /\ NeverLinked' \subseteq NeverLinked /\ r \notin NeverLinked'
        /\ \A q \in Paths : q # r => file'[q] = file[q]
    <3>1. burns + 1 # 0
      BY <1>0 DEF WalkTypeOK
    <3> QED
      BY <1>0, <1>4, <3>1, AddLinkFacts DEF NeverLinked
  <2>2. \/ file'[r] = Beyond
        \/ \E q \in Paths : q # r /\ file'[r] = file[q] /\ q \notin NeverLinked'
    BY <1>0, <1>4, AddLinkFacts DEF Present
  <2>3. ASSUME NEW p \in NeverLinked' PROVE p # r /\ p \in NeverLinked /\ p \in Paths /\ file'[p] = file[p]
    BY <1>0, <2>1, <2>3
  <2>4. ASSUME NEW p \in NeverLinked', NEW q \in Paths, file'[p] = file'[q] PROVE p = q
    <3>1. CASE q # r
      BY <1>1, <2>1, <2>3, <2>4, <3>1
    <3>2. CASE q = r
      BY <1>1, <2>2, <2>3, <2>4, <3>2
    <3> QED
      BY <3>1, <3>2
  <2>5. \A p \in NeverLinked' : file'[p] # Beyond
    BY <1>1, <2>3
  <2> QED
    BY <2>4, <2>5 DEF NamedOnce
<1> QED
  BY <1>2, <1>3, <1>4, TreeMoves DEF Disturbs

\* A path without links stays the only place of its version.
LEMMA StoredOnceStep ==
  ASSUME BurnInv, VersionsAreWritten, LinksAreMarked, Next PROVE StoredOnce'
<1>0. /\ WalkTypeOK /\ LinkTypeOK /\ NeverLinked \subseteq Paths
      /\ Stays \/ Ends \/ Begins \/ TakesUp \/ Seals \/ MovesOn
  BY WalkMoves DEF BurnInv, WalkIsSound, LinksAreMarked, NeverLinked
<1>1. /\ \A p \in NeverLinked, q \in Paths : tree[p] = tree[q] /\ tree[p] \in Versions => p = q
      /\ \A p \in NeverLinked : tree[p] \in Versions => tree[p] # outside
      /\ walk.at \in Handling =>
           \A p \in NeverLinked : tree[p] = walk.version /\ tree[p] \in Versions => p = walk.path
      /\ \A p, q \in Paths : p # q /\ file[p] = file[q] => p \notin NeverLinked
      /\ \A p \in NeverLinked : file[p] # Beyond
  BY DEF LinksAreMarked, StoredOnce, NamedOnce
<1>2. /\ \A p \in Paths : tree[p] \in Versions => tree[p] # NextVersion
      /\ outside # NextVersion /\ walk.version # NextVersion
  <2>1. /\ tree \in [Paths -> Readable \cup {Missing}] /\ outside \in Readable
        /\ walk.version \in Readable \cup {0}
    BY <1>0 DEF WalkTypeOK
  <2> QED
    BY <1>0, <2>1, NextIsFresh, ReadableFacts DEF VersionsAreWritten, Missing
<1>3. /\ \A p \in NeverLinked', q \in Paths : tree'[p] = tree'[q] /\ tree'[p] \in Versions => p = q
      /\ \A p \in NeverLinked' : tree'[p] \in Versions => tree'[p] # outside'
  <2>1. CASE TreeStays \/ Wipes \/ Removes
    BY <1>0, <1>1, <2>1, BurnFacts, ReadableFacts
  <2>2. ASSUME NEW r \in Paths, Edit(r), NEW p \in NeverLinked', tree'[p] \in Versions
        PROVE  tree'[p] # outside' /\ \A q \in Paths : tree'[p] = tree'[q] => p = q
    <3>1. p \in NeverLinked /\ p \in Paths
      BY <1>0, <2>2, EditFacts DEF NeverLinked
    <3>2. CASE /\ outside' = IF file[r] = Beyond THEN NextVersion ELSE outside
               /\ \A q \in Paths : tree'[q] = IF q \in Present /\ file[q] = file[r]
                                              THEN NextVersion ELSE tree[q]
      <4>1. CASE p \in Present /\ file[p] = file[r]
        <5>1. tree'[p] = NextVersion /\ p = r /\ file[r] # Beyond
          BY <1>1, <3>1, <3>2, <4>1
        <5>2. ASSUME NEW q \in Paths, tree'[q] = NextVersion PROVE q = p
          <6>1. tree'[q] = tree[q] => tree[q] \in Versions
            BY <2>2, <5>1, <5>2
          <6> QED
            BY <1>1, <1>2, <3>1, <3>2, <4>1, <5>2, <6>1
        <5> QED
          BY <1>2, <3>2, <5>1, <5>2
      <4>2. CASE ~(p \in Present /\ file[p] = file[r])
        <5>1. tree'[p] = tree[p] /\ tree[p] \in Versions /\ tree[p] # NextVersion
          BY <1>2, <2>2, <3>1, <3>2, <4>2
        <5> QED
          BY <1>1, <3>1, <3>2, <5>1
      <4> QED
        BY <4>1, <4>2
    <3>3. CASE /\ outside' = outside
               /\ \A q \in Paths : tree'[q] = IF q = r THEN NextVersion ELSE tree[q]
      <4>1. CASE p = r
        <5>1. tree'[p] = NextVersion /\ NextVersion \in Versions
          BY <2>2, <3>1, <3>3, <4>1
        <5>2. ASSUME NEW q \in Paths, tree'[q] = NextVersion, q # p PROVE FALSE
          <6>1. tree[q] = NextVersion
            BY <3>3, <4>1, <5>2
          <6> QED
            BY <1>2, <5>1, <6>1
        <5> QED
          BY <1>2, <3>3, <5>1, <5>2
      <4>2. CASE p # r
        <5>1. tree'[p] = tree[p] /\ tree[p] \in Versions /\ tree[p] # NextVersion
          BY <1>2, <2>2, <3>1, <3>3, <4>2
        <5> QED
          BY <1>1, <3>1, <3>3, <5>1
      <4> QED
        BY <4>1, <4>2
    <3> QED
      BY <1>0, <2>2, <3>2, <3>3, EditFacts
  <2>3. ASSUME NEW r \in Paths, AddLink(r), NEW p \in NeverLinked', tree'[p] \in Versions
        PROVE  tree'[p] # outside' /\ \A q \in Paths : tree'[p] = tree'[q] => p = q
    <3>1. /\ outside' = outside /\ r \notin NeverLinked'
          /\ \A q \in Paths : q # r => tree'[q] = tree[q]
          /\ \/ tree'[r] = outside
             \/ \E q \in Paths : tree'[r] = tree[q] /\ q \notin NeverLinked'
      BY <1>0, <2>3, AddLinkFacts DEF Present
    <3>2. p \in NeverLinked /\ p \in Paths /\ p # r /\ tree'[p] = tree[p] /\ tree[p] \in Versions
      <4>1. p \in NeverLinked
        BY <1>0, <2>3, TreeFacts
      <4> QED
        BY <1>0, <2>3, <3>1, <4>1
    <3>3. tree'[r] # tree[p]
      BY <1>1, <2>3, <3>1, <3>2
    <3> QED
      BY <1>1, <3>1, <3>2, <3>3
  <2> QED
    BY <2>1, <2>2, <2>3, TreeMoves DEF Disturbs
<1>4. ASSUME walk'.at \in Handling, NEW p \in NeverLinked', tree'[p] = walk'.version,
             tree'[p] \in Versions
       PROVE  p = walk'.path
  <2>0. p \in NeverLinked /\ p \in Paths /\ tree'[p] \in {tree[p], NextVersion}
    BY <1>0, <1>4, TreeFacts, ReadableFacts
  <2>1. CASE TakesUp
    <3>1. walk'.path \in Paths /\ walk'.version = tree[walk'.path]
      BY <1>0, <2>1 DEF TakesUp, WalkTypeOK
    <3>2. tree'[p] = tree[p]
      BY <1>2, <1>4, <2>0, <3>1
    <3> QED
      BY <1>1, <1>4, <2>0, <3>1, <3>2
  <2>2. CASE ~TakesUp
    <3>1. walk.at \in Handling /\ walk'.version = walk.version /\ walk'.path = walk.path
      BY <1>0, <1>4, <2>2 DEF Stays, Ends, Begins, Seals, MovesOn, SameFile, Handling
    <3>2. tree'[p] = tree[p]
      BY <1>2, <1>4, <2>0, <3>1
    <3> QED
      BY <1>1, <1>4, <2>0, <3>1, <3>2
  <2> QED
    BY <2>1, <2>2
<1> QED
  BY <1>3, <1>4 DEF StoredOnce

\* What the burn would have refused at its start was linked since.
LEMMA LinksStep ==
  ASSUME BurnInv, LinkTypeOK, LinksAreNew, Next PROVE LinksAreNew'
<1>0. /\ WalkTypeOK /\ file \in [Paths -> Written] /\ Present \subseteq Paths /\ Present' \subseteq Paths
      /\ Stays \/ Ends \/ Begins \/ TakesUp \/ Seals \/ MovesOn
  BY WalkMoves DEF BurnInv, WalkIsSound, LinkTypeOK, Present
<1>1. CASE BurnDirectory
  <2>1. /\ tree' = tree /\ file' = file /\ soft' = soft
        /\ soft \cap Present = {} /\ \A p, q \in Present : p = q \/ file[p] # file[q]
    BY <1>1 DEF BurnDirectory, Refused, target
  <2>2. Present' = Present
    BY <2>1 DEF Present
  <2> QED
    BY <2>1, <2>2 DEF LinksAreNew
<1>2. ASSUME walk.at = "idle", walk'.at # "idle" PROVE BurnDirectory
  <2>1. Begins
    BY <1>0, <1>2 DEF Stays, Ends, TakesUp, Seals, MovesOn
  <2> QED
    BY <1>0, <2>1 DEF Begins, WalkTypeOK, Next, ReadFile, SealFile, BurnSealed, OverwriteOriginal,
       UnlinkOriginal, RemoveDirs, WriteManifest, VerifyManifest, Call, Cli, wvars, Edit, AddLink,
       Disturb, Crash, CrashCli
<1>3. ASSUME walk.at # "idle", walk'.at # "idle" PROVE LinksAreNew'
  <2>0. /\ burns' = burns
        /\ \A p, q \in Present :
             p # q /\ file[p] = file[q] => linked[p] = burns + 1 \/ linked[q] = burns + 1
        /\ \A p \in soft \cap Present : linked[p] = burns + 1
    BY <1>0, <1>3 DEF Stays, Ends, Begins, TakesUp, Seals, MovesOn, SameFile, LinksAreNew, LinkedSince
  <2>1. CASE TreeStays \/ Wipes \/ Removes
    <3>1. Present' \subseteq Present /\ file' = file /\ soft' = soft /\ linked' = linked
      BY <2>1, BurnFacts DEF Present
    <3> QED
      BY <2>0, <3>1 DEF LinksAreNew, LinkedSince
  <2>2. ASSUME NEW r \in Paths, Edit(r) PROVE LinksAreNew'
    <3>1. linked' = linked
      BY <1>0, <2>2, EditFacts
    <3>2. CASE /\ r \in Present /\ file' = file /\ soft' = soft
               /\ \A q \in Paths : tree'[q] = IF q \in Present /\ file[q] = file[r]
                                              THEN NextVersion ELSE tree[q]
      <4>1. Present' \subseteq Present
        BY <3>2 DEF Present
      <4> QED
        BY <2>0, <3>1, <3>2, <4>1 DEF LinksAreNew, LinkedSince
    <3>3. CASE /\ soft' = soft \ {r}
               /\ \A q \in Paths : /\ tree'[q] = IF q = r THEN NextVersion ELSE tree[q]
                                   /\ file'[q] = IF q = r THEN NextVersion ELSE file[q]
      <4>1. Present' \subseteq Present \cup {r}
        BY <3>3 DEF Present
      <4>2. \A q \in Paths : file[q] # NextVersion
        BY <1>0, NextIsFresh
      <4> QED
        BY <1>0, <2>0, <3>1, <3>3, <4>1, <4>2 DEF LinksAreNew, LinkedSince
    <3> QED
      BY <1>0, <2>2, <3>2, <3>3, EditFacts
  <2>3. ASSUME NEW r \in Paths, AddLink(r) PROVE LinksAreNew'
    <3>1. /\ linked'[r] = burns + 1 /\ soft' \subseteq soft \cup {r}
          /\ \A q \in Paths : /\ q # r => tree'[q] = tree[q] /\ file'[q] = file[q]
                              /\ linked'[q] \in {linked[q], burns + 1}
      BY <1>0, <2>3, AddLinkFacts
    <3>2. Present' \subseteq Present \cup {r}
      BY <3>1 DEF Present
    <3> QED
      BY <1>0, <2>0, <3>1, <3>2 DEF LinksAreNew, LinkedSince
  <2> QED
    BY <2>1, <2>2, <2>3, TreeMoves DEF Disturbs
<1> QED
  BY <1>1, <1>2, <1>3 DEF LinksAreNew

\* A burn of the sealed copy begins before the original is touched.
LEMMA BurnBegins ==
  ASSUME BurnInv, Next, walk.at = "seal", walk'.at = "burn" PROVE call'["dirburn"].op = "burn"
<1>0. PInv /\ WalkTypeOK /\ PrimitiveTypeOK /\ "dirburn" \in Callers
  BY DEF BurnInv, PInv, WalkIsSound
<1>1. CASE BurnSealed
  <2>1. ~Die
    BY DEF Die, NoWalk
  <2>2. BeginBurn("dirburn", NameOf(walk.burn, walk.path))
    BY <1>1, <2>1 DEF BurnSealed
  <2>3. PICK c : /\ c = [NoCall EXCEPT !.at = "filekeys", !.op = "burn",
                            !.name = NameOf(walk.burn, walk.path),
                            !.key = registry[NameOf(walk.burn, walk.path)]]
                 /\ call' = [call EXCEPT !["dirburn"] = c]
    BY <2>2 DEF BeginBurn
  <2>4. c.op = "burn"
    BY <2>3 DEF NoCall
  <2> QED
    BY <1>0, <2>3, <2>4, CallChanges
<1>2. CASE Crash
  BY <1>2 DEF Crash, Die, NoWalk
<1>3. CASE ~BurnSealed /\ ~Crash
  BY <1>3 DEF Next, BurnDirectory, ReadFile, SealFile, OverwriteOriginal, UnlinkOriginal,
              RemoveDirs, WriteManifest, VerifyManifest, Call, Cli, Edit, AddLink, Disturb, CrashCli,
              wvars
<1> QED
  BY <1>1, <1>2, <1>3

\* When the burn of the sealed copy is over, its key is certified.
LEMMA BurnEnds ==
  ASSUME RegistryInv, NamesInv, Next, walk.at = "burn", walk' = walk,
         call["dirburn"].op # "none", call'["dirburn"].op = "none"
  PROVE  walk.version \in CertifiedVersions \cup {Scrap}
<1>0. /\ BurnInv /\ PInv /\ WalkIsSound /\ CallFollowsWalk /\ PrimitiveTypeOK
      /\ "dirburn" \in Callers /\ "cli" \in Callers
  BY DEF RegistryInv, BurnInv, PInv
<1>1. call["dirburn"].op = "burn"
  BY <1>0, StageFacts DEF CallFollowsWalk
<1>2. FileStep("dirburn")
  <2>1. CASE Call("cli")
    BY <1>0, <2>1, FileStepMoves DEF Call
  <2>2. CASE Cli
    <3>1. \E c : call' = [call EXCEPT !["cli"] = c]
      BY <2>2 DEF Cli, Seal, BeginBurn
    <3> QED
      BY <1>0, <3>1, CallChanges
  <2>3. CASE CrashCli
    BY <1>0, <2>3, FinishEnds DEF CrashCli, Abandon
  <2>4. CASE (\E p \in Paths : Edit(p) \/ AddLink(p))
    BY <2>4 DEF Edit, AddLink, Disturb, fvars
  <2>5. CASE OverwriteOriginal
    <3>1. Returned("dirburn")
      BY <2>5 DEF OverwriteOriginal, Returned
    <3> QED
      BY <1>0, <1>1, <3>1, StageFacts
  <2>6. CASE Crash
    BY <2>6 DEF Crash, Die, NoWalk
  <2>7. CASE BurnDirectory \/ ReadFile \/ SealFile \/ BurnSealed \/ UnlinkOriginal \/ RemoveDirs
             \/ WriteManifest \/ VerifyManifest
    BY <2>7 DEF BurnDirectory, ReadFile, SealFile, BurnSealed, UnlinkOriginal, RemoveDirs,
                WriteManifest, VerifyManifest
  <2>8. CASE Call("dirburn")
    BY <2>8 DEF Call
  <2> QED
    BY <2>1, <2>2, <2>3, <2>4, <2>5, <2>6, <2>7, <2>8 DEF Next
<1>3. call["dirburn"].at \in {"reload", "forget"}
  <2>1. CASE Register("dirburn")
    BY <1>0, <1>1, <2>1, StageFacts DEF Register
  <2>2. CASE Reload("dirburn") \/ Forget("dirburn")
    BY <2>2 DEF Reload, Forget
  <2>3. CASE \E at \in Stages : Goto("dirburn", at)
    BY <1>0, <1>1, <2>3, GotoMoves
  <2>4. CASE WriteSealed("dirburn")
    BY <1>1, <2>4 DEF WriteSealed
  <2>5. CASE SkipMissing("dirburn") \/ Unlink("dirburn")
    <3>1. /\ AfterBurn("dirburn") \in Stages /\ Goto("dirburn", AfterBurn("dirburn"))
      BY <2>5 DEF SkipMissing, Unlink, Burning, AfterBurn, Places, KeyPlaces, Stages
    <3> QED
      BY <2>3, <3>1
  <2>6. CASE Overwrite("dirburn")
    BY <1>1, <2>6 DEF Overwrite
  <2>7. CASE Certify("dirburn") \/ LogBurn("dirburn")
    <3>1. \E at \in Stages : Goto("dirburn", at)
      BY <2>7 DEF Certify, LogBurn, Stages
    <3> QED
      BY <2>3, <3>1
  <2> QED
    BY <1>2, <2>1, <2>2, <2>4, <2>5, <2>6, <2>7 DEF FileStep
<1>4. PICK n \in Names, k \in Keys : n = call["dirburn"].name /\ k = call["dirburn"].key
  BY <1>0, <1>1 DEF PInv, CallsAreSound, Stage
<1>5. k \in Certified /\ Bears(n, k) /\ n = NameOf(walk.burn, walk.path)
  BY <1>0, <1>1, <1>3, <1>4, BearsFacts DEF PInv, CallsAreSound, BurnIsThorough, CallFollowsWalk
<1>6. content[k] = walk.version
  BY <1>5 DEF NamesInv, SealedAsRead
<1>7. walk.version \in Readable
  BY <1>0 DEF WalkIsSound, InHand, Handling
<1> QED
  BY <1>5, <1>6, <1>7, ReadableFacts DEF CertifiedVersions

LEMMA RemovedStep ==
  ASSUME RegistryInv, NamesInv, RemovedAreCertified, Next PROVE RemovedAreCertified'
<1>0. /\ BurnInv
      /\ Stays \/ Ends \/ Begins \/ TakesUp \/ Seals \/ MovesOn
  BY WalkMoves DEF RegistryInv, BurnInv
<1>1. CertifiedVersions \subseteq CertifiedVersions'
  BY CertifiedVersionsGrow
<1>2. CASE Stays
  <2>1. walk' = walk
    BY <1>2 DEF Stays
  <2> QED
    BY <1>1, <2>1, BurnEnds DEF RemovedAreCertified
<1>3. CASE Ends \/ Begins \/ TakesUp \/ Seals
  BY <1>3 DEF Ends, Begins, TakesUp, Seals, RemovedAreCertified
<1>4. CASE MovesOn
  <2>1. CASE walk.at = "seal"
    BY <1>0, <1>4, <2>1, BurnBegins DEF MovesOn, RemovedAreCertified
  <2>2. CASE walk.at = "burn"
    <3>1. walk'.at = "unlink" /\ walk'.version = walk.version
      BY <1>4, <2>2 DEF MovesOn, SameFile
    <3>2. Wipes
      <4>1. ~TreeStays
        BY <1>4, <2>2, <3>1 DEF TreeStays, Stays, Ends
      <4>2. ~Disturbs
        BY <2>2, <3>1 DEF Disturbs, Edit, AddLink, Disturb
      <4> QED
        BY <1>0, <2>2, <4>1, <4>2, TreeMoves DEF Removes
    <3> QED
      BY <1>1, <2>2, <3>1, <3>2 DEF Wipes, RemovedAreCertified
  <2>3. CASE walk.at \notin {"seal", "burn"}
    BY <1>4, <2>3 DEF MovesOn, RemovedAreCertified
  <2> QED
    BY <2>1, <2>2, <2>3
<1> QED
  BY <1>0, <1>2, <1>3, <1>4

LEMMA GoneStep ==
  ASSUME BurnInv, GoneMeansEmpty, Next PROVE GoneMeansEmpty'
<1>0. tree \in [Paths -> Readable \cup {Missing}] /\ WalkIsSound
  BY DEF BurnInv, WalkIsSound, WalkTypeOK
<1>1. CASE TreeStays
  <2>1. tree' = tree /\ (standing' = standing \/ standing' = (Present # {}))
    BY <1>1 DEF TreeStays
  <2>2. CASE standing' = standing
    BY <2>1, <2>2 DEF GoneMeansEmpty
  <2>3. CASE standing' = (Present # {})
    <3>1. ASSUME ~standing' PROVE Present = {}
      BY <2>3, <3>1
    <3>2. Present = {} => \A p \in Paths : tree[p] = Missing
      BY DEF Present
    <3> QED
      BY <2>1, <3>1, <3>2 DEF GoneMeansEmpty
  <2> QED
    BY <2>1, <2>2, <2>3
<1>2. CASE Disturbs
  BY <1>2 DEF Disturbs, Edit, AddLink, Disturb, GoneMeansEmpty
<1>3. CASE Wipes \/ Removes
  <2>1. walk.path \in Paths /\ tree[walk.path] # Missing /\ standing' = standing
    BY <1>0, <1>3 DEF Wipes, Removes, WalkIsSound, InHand, Handling
  <2> QED
    BY <2>1 DEF GoneMeansEmpty
<1> QED
  BY <1>1, <1>2, <1>3, TreeMoves

-----------------------------------------------------------------------------
(* The papers.                                                              *)

LEMMA PathsAreFew ==
  /\ IsFiniteSet(Paths)
  /\ \A list \in Lists : IsFiniteSet(list)
<1>1. IsFiniteSet(Paths)
  <2>1. 1 \in Int /\ NumPaths \in Int
    OBVIOUS
  <2> QED
    BY <2>1, FS_Interval DEF Paths
<1>2. IsFiniteSet(Readable)
  <2>1. PICK top \in Int : top = Beyond + MaxEdits
    BY DEF Beyond
  <2>2. IsFiniteSet(1..top)
    BY FS_Interval
  <2>3. Versions = 1..top
    BY <2>1 DEF Versions
  <2> QED
    BY <2>2, <2>3, FS_AddElement DEF Readable
<1>3. IsFiniteSet(Paths \X Readable)
  BY <1>1, <1>2, FS_Product
<1> QED
  BY <1>1, <1>3, FS_Subset DEF Lists

\* At most one more, and no more.
LEMMA OneMore ==
  ASSUME NEW S, NEW x, NEW T \in SUBSET (S \cup {x}), IsFiniteSet(S)
  PROVE  /\ IsFiniteSet(T) /\ Cardinality(T) \in Nat /\ Cardinality(S) \in Nat
         /\ Cardinality(T) <= Cardinality(S) + 1
<1>1. IsFiniteSet(S \cup {x}) /\ Cardinality(S \cup {x}) =
            IF x \in S THEN Cardinality(S) ELSE Cardinality(S) + 1
  BY FS_AddElement
<1>2. IsFiniteSet(T) /\ Cardinality(T) <= Cardinality(S \cup {x})
  BY <1>1, FS_Subset
<1>3. Cardinality(T) \in Nat /\ Cardinality(S) \in Nat
  BY <1>2, FS_CardinalityType
<1> QED
  BY <1>1, <1>2, <1>3

LEMMA NoMore ==
  ASSUME NEW S, NEW T \in SUBSET S, IsFiniteSet(S)
  PROVE  /\ IsFiniteSet(T) /\ Cardinality(T) \in Nat /\ Cardinality(S) \in Nat
         /\ Cardinality(T) <= Cardinality(S)
BY FS_Subset, FS_CardinalityType

\* A certified version was written before.
LEMMA CertifiedWasWritten ==
  ASSUME PInv, VersionsAreWritten PROVE CertifiedVersions \subseteq Written \cap Versions
<1>1. ASSUME NEW k \in Certified PROVE k \in DOMAIN content
  <2>1. k \in Keys /\ k <= Len(content) /\ content \in Seq(Int)
    BY <1>1 DEF PInv, KeysWereDrawn, PrimitiveTypeOK, Certified
  <2> QED
    BY <2>1 DEF Keys
<1> QED
  BY <1>1 DEF VersionsAreWritten, CertifiedVersions

\* What a list says of burned files stays true, whatever the step.
LEMMA ListStaysTrue ==
  ASSUME RegistryInv, NamesInv, VersionsAreWritten, LinkTypeOK, Next,
         NEW list \in Lists, ListIsTrue(list)
  PROVE  ListIsTrue(list)'
<1>0. /\ BurnInv /\ PInv /\ WalkTypeOK /\ edits \in Int
      /\ \A e \in list : e[1] \in Paths /\ e[2] \in Readable
  BY DEF RegistryInv, BurnInv, WalkIsSound, WalkTypeOK, Lists
<1>1. /\ \A e \in list : e[2] # Scrap => /\ e[1] \in NeverLinked => tree[e[1]] # e[2]
                                         /\ e[2] \in CertifiedVersions
      /\ \A e, f \in list : e[1] = f[1] => e = f
      /\ Cardinality(Survivors(list)) <= edits
  BY DEF ListIsTrue
<1>2. CertifiedVersions \subseteq CertifiedVersions'
  BY CertifiedVersionsGrow
<1>3. ASSUME NEW e \in list, e[2] # Scrap
      PROVE  (e[1] \in NeverLinked' => tree'[e[1]] # e[2]) /\ e[2] \in CertifiedVersions'
  <2>1. e[1] \in Paths /\ e[2] \in CertifiedVersions /\ (e[1] \in NeverLinked => tree[e[1]] # e[2])
    BY <1>0, <1>1, <1>3
  <2>2. e[2] \in Written /\ e[2] \in Versions /\ e[2] # NextVersion
    BY <1>0, <2>1, CertifiedWasWritten, NextIsFresh
  <2>3. ASSUME e[1] \in NeverLinked' PROVE tree'[e[1]] # e[2]
    <3>1. tree'[e[1]] \in {tree[e[1]], Scrap, Missing, NextVersion} /\ e[1] \in NeverLinked
      BY <1>0, <2>3, TreeFacts
    <3> QED
      BY <2>1, <2>2, <3>1, ReadableFacts
  <2> QED
    BY <1>2, <2>1, <2>3
<1>4. Cardinality(Survivors(list)') <= edits'
  <2>1. IsFiniteSet(Survivors(list)) /\ Survivors(list)' = {e \in list : tree'[e[1]] # Missing}
    BY PathsAreFew, FS_Subset DEF Survivors
  <2>2. ASSUME edits' = edits + 1, NEW p \in Paths,
               \A q \in Paths : q # p /\ tree[q] = Missing => tree'[q] = Missing
        PROVE  Cardinality(Survivors(list)') <= edits'
    <3>3. PICK x : \A e \in list : e[1] = p => e = x
      BY <1>1
    <3>4. Survivors(list)' \in SUBSET (Survivors(list) \cup {x})
      BY <1>0, <2>1, <2>2, <3>3 DEF Survivors
    <3>5. /\ Cardinality(Survivors(list)') <= Cardinality(Survivors(list)) + 1
          /\ Cardinality(Survivors(list)') \in Nat /\ Cardinality(Survivors(list)) \in Nat
      BY <2>1, <3>4, OneMore
    <3> QED
      BY <1>0, <1>1, <2>2, <3>5
  <2>3. CASE edits' = edits /\ \A q \in Paths : tree[q] = Missing => tree'[q] = Missing
    <3>2. Survivors(list)' \in SUBSET Survivors(list)
      BY <1>0, <2>1, <2>3 DEF Survivors
    <3>3. /\ Cardinality(Survivors(list)') <= Cardinality(Survivors(list))
          /\ Cardinality(Survivors(list)') \in Nat /\ Cardinality(Survivors(list)) \in Nat
      BY <2>1, <3>2, NoMore
    <3> QED
      BY <1>0, <1>1, <2>3, <3>3
  <2> QED
    BY <1>0, <2>2, <2>3, TreeFacts
<1> QED
  BY <1>1, <1>3, <1>4 DEF ListIsTrue

LEMMA RemovesWhenUnlinked ==
  ASSUME BurnInv, Next, MovesOn, walk.at = "unlink" PROVE Removes
<1>1. walk'.at = "next"
  BY DEF MovesOn
<1>2. ~TreeStays
  BY <1>1 DEF TreeStays, Stays, Ends
<1>3. ~Disturbs
  BY <1>1 DEF Disturbs, Edit, AddLink, Disturb
<1> QED
  BY <1>2, <1>3, TreeMoves DEF Wipes

LEMMA ListsStep ==
  ASSUME RegistryInv, NamesInv, VersionsAreWritten, LinkTypeOK, RemovedAreCertified,
         ListsAreTrue, Next
  PROVE  ListsAreTrue'
<1>0. /\ BurnInv /\ WalkIsSound /\ WalkTypeOK /\ WalkTypeOK'
      /\ walk.entries \in Lists /\ manifests \in SUBSET Lists
      /\ Stays \/ Ends \/ Begins \/ TakesUp \/ Seals \/ MovesOn
  BY WalkMoves, WalkKeeps DEF RegistryInv, BurnInv, WalkIsSound, WalkTypeOK
<1>1. \A list \in Lists : ListIsTrue(list) => ListIsTrue(list)'
  BY ListStaysTrue
<1>2. PICK list \in Lists : list = walk.entries
  BY <1>0
<1>3. ListIsTrue(list)'
  BY <1>1, <1>2 DEF ListsAreTrue
<1>4. \A m \in manifests' : ListIsTrue(m)'
  <2>1. manifests' \in {manifests, manifests \cup {list}}
    BY <1>0, <1>2, TreeMoves DEF TreeStays, Wipes, Removes, Disturbs, Edit, AddLink, Disturb
  <2>2. \A m \in manifests : ListIsTrue(m)'
    BY <1>0, <1>1 DEF ListsAreTrue
  <2> QED
    BY <1>3, <2>1, <2>2
<1>5. ListIsTrue(walk.entries)'
  <2>1. CASE walk'.entries = list
    BY <1>3, <2>1 DEF ListIsTrue, Survivors
  <2>2. CASE walk'.entries = {}
    <3>1. Survivors(walk.entries)' = {} /\ Cardinality({}) = 0
      BY <2>2, FS_EmptySet DEF Survivors
    <3>2. edits' \in Nat
      BY <1>0 DEF WalkTypeOK
    <3> QED
      BY <2>2, <3>1, <3>2 DEF ListIsTrue
  <2>3. CASE Removes
    <3>1. PICK p \in Paths, v \in Readable : p = walk.path /\ v = walk.version
      BY <1>0, <2>3 DEF Removes, WalkIsSound, InHand, Handling
    <3>2. walk'.entries = list \cup {<<p, v>>} /\ tree'[p] = Missing
      BY <1>0, <1>2, <2>3, <3>1 DEF Removes, WalkTypeOK
    <3>3. \A e \in list : e[1] # p
      BY <1>0, <1>2, <2>3, <3>1 DEF Removes, WalkIsSound, InHand, Handling
    <3>4. v # Scrap => v \in CertifiedVersions'
      BY <2>3, <3>1, CertifiedVersionsGrow DEF Removes, RemovedAreCertified
    <3>5. v # Missing
      BY <3>1, ReadableFacts
    <3>6. PICK all : all = list \cup {<<p, v>>}
      OBVIOUS
    <3>7. \A e \in all : e[2] # Scrap => /\ e[1] \in NeverLinked' => tree'[e[1]] # e[2]
                                         /\ e[2] \in CertifiedVersions'
      BY <1>3, <3>2, <3>4, <3>5, <3>6 DEF ListIsTrue
    <3>8. \A e, f \in all : e[1] = f[1] => e = f
      BY <1>3, <3>3, <3>6 DEF ListIsTrue
    <3>9. {e \in all : tree'[e[1]] # Missing} = {e \in list : tree'[e[1]] # Missing}
      BY <3>2, <3>6
    <3>10. Cardinality({e \in list : tree'[e[1]] # Missing}) <= edits'
      BY <1>3 DEF ListIsTrue, Survivors
    <3>11. walk'.entries = all
      BY <3>2, <3>6
    <3>12. (Cardinality(Survivors(walk.entries)) <= edits)'
      BY <3>9, <3>10, <3>11 DEF Survivors
    <3> QED
      <4>1. (\A e \in walk.entries :
               e[2] # Scrap => /\ e[1] \in NeverLinked => tree[e[1]] # e[2]
                               /\ e[2] \in CertifiedVersions)'
        BY <3>7, <3>11
      <4>2. (\A e, f \in walk.entries : e[1] = f[1] => e = f)'
        BY <3>8, <3>11
      <4> QED
        BY <3>12, <4>1, <4>2 DEF ListIsTrue
  <2>4. walk'.entries = list \/ walk'.entries = {} \/ Removes
    <3>1. CASE MovesOn
      BY <1>0, <1>2, <3>1, RemovesWhenUnlinked DEF MovesOn
    <3>2. CASE ~MovesOn
      BY <1>0, <1>2, <3>2 DEF Stays, Ends, Begins, TakesUp, Seals
    <3> QED
      BY <3>1, <3>2
  <2> QED
    BY <2>1, <2>2, <2>3, <2>4
<1> QED
  BY <1>4, <1>5 DEF ListsAreTrue

\* Only the file at hand becomes a certified file that is still there.
LEMMA LeftoverMoves ==
  ASSUME RegistryInv, NamesInv, VersionsAreWritten, LinksAreMarked, Next
  PROVE  \/ Leftover' \subseteq Leftover
         \/ walk.at = "burn" /\ walk' = walk /\ Leftover' \subseteq Leftover \cup {walk.path}
<1>0. BurnInv /\ PInv /\ WalkTypeOK /\ LinkTypeOK
  BY DEF RegistryInv, BurnInv, WalkIsSound, LinksAreMarked
<1>1. CASE CertifiedVersions' = CertifiedVersions
  <2>1. ASSUME NEW p \in NeverLinked', tree'[p] \in CertifiedVersions
        PROVE  p \in NeverLinked /\ tree[p] \in CertifiedVersions
    <3>1. tree'[p] \in Written /\ tree'[p] \in Versions /\ tree'[p] # NextVersion
      BY <1>0, <2>1, CertifiedWasWritten, NextIsFresh
    <3>3. tree'[p] \in {tree[p], Scrap, Missing, NextVersion} /\ p \in NeverLinked
      BY <1>0, <2>1, TreeFacts
    <3> QED
      BY <2>1, <3>1, <3>3, ReadableFacts
  <2> QED
    BY <1>1, <2>1 DEF Leftover
<1>2. CASE /\ UNCHANGED wvars /\ walk.at = "burn"
           /\ CertifiedVersions' \subseteq CertifiedVersions \cup {walk.version}
  <2>1. walk' = walk /\ tree' = tree /\ NeverLinked' = NeverLinked
    BY <1>2 DEF wvars, target, NeverLinked
  <2>2. CertifiedVersions' \subseteq Versions
    BY DEF CertifiedVersions
  <2>3. \A p \in NeverLinked : tree[p] = walk.version /\ tree[p] \in Versions => p = walk.path
    BY <1>2 DEF LinksAreMarked, StoredOnce, Handling
  <2> QED
    BY <1>2, <2>1, <2>2, <2>3 DEF Leftover
<1> QED
  BY <1>1, <1>2, CertifiedVersionsGrow

LEMMA WipesWhenBurned ==
  ASSUME BurnInv, Next, MovesOn, walk.at = "burn" PROVE Wipes
<1>1. walk'.at = "unlink"
  BY DEF MovesOn
<1>2. ~TreeStays
  BY <1>1 DEF TreeStays, Stays, Ends
<1>3. ~Disturbs
  BY <1>1 DEF Disturbs, Edit, AddLink, Disturb
<1> QED
  BY <1>2, <1>3, TreeMoves DEF Removes

\* Only a death over the certified file adds to the leftovers that count.
LEMMA CountedMoves ==
  ASSUME RegistryInv, NamesInv, VersionsAreWritten, LinksAreMarked, Next
  PROVE  \/ Counted' \subseteq Counted
         \/ walk.at = "burn" /\ Ends /\ Counted' \subseteq Counted \cup {walk.path}
<1>0. BurnInv /\ (Stays \/ Ends \/ Begins \/ TakesUp \/ Seals \/ MovesOn)
  BY WalkMoves DEF RegistryInv, BurnInv
<1>1. Counted' \subseteq Leftover'
  BY DEF Counted
<1>2. CASE walk.at # "burn"
  <2>1. Counted = Leftover
    BY <1>2 DEF Counted
  <2> QED
    BY <1>1, <1>2, <2>1, LeftoverMoves
<1>3. CASE walk.at = "burn"
  <2>1. Counted = Leftover \ {walk.path}
    BY <1>3 DEF Counted
  <2>2. CASE Stays
    <3>1. walk' = walk
      BY <2>2 DEF Stays
    <3>2. Counted' = Leftover' \ {walk.path}
      BY <1>3, <3>1 DEF Counted
    <3> QED
      BY <2>1, <3>2, LeftoverMoves
  <2>3. CASE Ends
    <3>1. Leftover' \subseteq Leftover \cup {walk.path}
      BY LeftoverMoves
    <3> QED
      BY <1>1, <1>3, <2>1, <2>3, <3>1
  <2>4. CASE MovesOn
    <3>1. Wipes
      BY <1>0, <1>3, <2>4, WipesWhenBurned
    <3>2. walk' # walk
      BY <3>1 DEF Wipes
    <3>3. Leftover' \subseteq Leftover
      BY <3>2, LeftoverMoves
    <3>4. walk.path \notin Leftover'
      <4>1. tree'[walk.path] = Scrap
        <5>1. walk.path \in Present /\ WriteTo(file[walk.path], Scrap) /\ WalkTypeOK
          BY <1>0, <3>1 DEF Wipes, BurnInv, WalkIsSound, InHand, Handling, Present
        <5> QED
          BY <5>1, WritesKeepTypes DEF Readable, Present
      <4>2. Scrap \notin CertifiedVersions'
        BY ReadableFacts DEF CertifiedVersions
      <4> QED
        BY <4>1, <4>2 DEF Leftover
    <3> QED
      BY <1>1, <2>1, <3>3, <3>4
  <2> QED
    BY <1>0, <1>3, <2>2, <2>3, <2>4 DEF Begins, TakesUp, Seals
<1> QED
  BY <1>2, <1>3

LEMMA ManifestsMove ==
  ASSUME BurnInv, Next
  PROVE  \/ manifests' = manifests
         \/ walk.at = "manifest" /\ walk'.at = "verify"
              /\ manifests' \subseteq manifests \cup {walk.entries}
BY TreeMoves DEF TreeStays, Wipes, Removes, Disturbs, Edit, AddLink, Disturb

LEMMA LeftoversStep ==
  ASSUME RegistryInv, NamesInv, VersionsAreWritten, LinksAreMarked, LeftoversAreFew, Next
  PROVE  LeftoversAreFew'
<1>0. /\ BurnInv /\ WalkTypeOK
      /\ Stays \/ Ends \/ Begins \/ TakesUp \/ Seals \/ MovesOn
  BY WalkMoves DEF RegistryInv, BurnInv, WalkIsSound
<1>1. IsFiniteSet(Counted) /\ IsFiniteSet(manifests)
  <2>1. Counted \subseteq Paths
    BY DEF Counted, Leftover, NeverLinked
  <2> QED
    BY <1>0, <2>1, PathsAreFew, FS_Subset DEF WalkTypeOK
<1>2. PICK c \in Nat : c = Cardinality(Counted)
  BY <1>1, FS_CardinalityType
<1>3. PICK m \in Nat : m = Cardinality(manifests)
  BY <1>1, FS_CardinalityType
<1>4. PICK b \in Nat : b = burns
  BY <1>0 DEF WalkTypeOK
<1>5. PICK cc \in Nat :
        /\ cc = Cardinality(Counted')
        /\ IF walk.at = "burn" /\ Ends THEN cc <= c + 1 ELSE cc <= c
  <2>1. CASE Counted' \subseteq Counted
    <3>1. Cardinality(Counted') \in Nat /\ Cardinality(Counted') <= c
      BY <1>1, <1>2, <2>1, NoMore
    <3> QED
      BY <3>1
  <2>2. CASE walk.at = "burn" /\ Ends /\ Counted' \subseteq Counted \cup {walk.path}
    <3>1. Cardinality(Counted') \in Nat /\ Cardinality(Counted') <= c + 1
      BY <1>1, <1>2, <2>2, OneMore
    <3> QED
      BY <2>2, <3>1
  <2> QED
    BY <2>1, <2>2, CountedMoves
<1>6. PICK mm \in Nat :
        /\ mm = Cardinality(manifests')
        /\ IF walk.at = "manifest" /\ walk'.at = "verify" THEN mm <= m + 1 ELSE mm <= m
  <2>1. CASE manifests' = manifests
    <3>1. Cardinality(manifests') = m
      BY <1>3, <2>1
    <3> QED
      BY <3>1
  <2>2. CASE /\ walk.at = "manifest" /\ walk'.at = "verify"
             /\ manifests' \subseteq manifests \cup {walk.entries}
    <3>1. Cardinality(manifests') \in Nat /\ Cardinality(manifests') <= m + 1
      BY <1>1, <1>3, <2>2, OneMore
    <3> QED
      BY <2>2, <3>1
  <2> QED
    BY <1>0, <2>1, <2>2, ManifestsMove
<1>7. c + m + (IF Running THEN 1 ELSE 0) <= b
  BY <1>2, <1>3, <1>4 DEF LeftoversAreFew
<1>8. PICK bb \in Nat : bb = burns' /\ bb = IF Begins THEN b + 1 ELSE b
  <2>1. CASE Begins
    BY <1>4, <2>1 DEF Begins
  <2>2. CASE ~Begins
    <3>1. burns' = b
      BY <1>0, <1>4, <2>2 DEF Stays, Ends, TakesUp, Seals, MovesOn, SameFile
    <3> QED
      BY <2>2, <3>1
  <2> QED
    BY <2>1, <2>2
<1>9. cc + mm + (IF Running' THEN 1 ELSE 0) <= bb
  <2>1. CASE Stays
    <3>1. walk' = walk /\ ~Begins /\ ~(walk.at = "burn" /\ Ends)
      BY <2>1 DEF Stays, Begins, Ends
    <3>2. Running' = Running
      BY <3>1 DEF Running
    <3> QED
      BY <1>5, <1>6, <1>7, <1>8, <3>1, <3>2
  <2>2. CASE Ends
    <3>1. ~Running' /\ ~Begins /\ walk'.at # "verify" /\ (walk.at = "burn" => Running)
      BY <2>2 DEF Ends, Begins, Running
    <3> QED
      BY <1>5, <1>6, <1>7, <1>8, <3>1
  <2>3. CASE Begins
    <3>1. ~Running /\ walk.at # "burn" /\ walk.at # "manifest"
      BY <2>3 DEF Begins, Running
    <3> QED
      BY <1>5, <1>6, <1>7, <1>8, <2>3, <3>1
  <2>4. CASE TakesUp \/ Seals \/ MovesOn
    <3>1. Running /\ ~Begins /\ ~Ends /\ (Running' \/ (walk.at = "manifest" /\ walk'.at = "verify"))
      BY <2>4 DEF TakesUp, Seals, MovesOn, Begins, Ends, Running
    <3>2. walk'.at = "verify" => ~Running'
      BY DEF Running
    <3> QED
      BY <1>5, <1>6, <1>7, <1>8, <3>1, <3>2
  <2> QED
    BY <1>0, <2>1, <2>2, <2>3, <2>4
<1> QED
  BY <1>5, <1>6, <1>8, <1>9 DEF LeftoversAreFew

-----------------------------------------------------------------------------
(* All of it.                                                               *)

PapersInv ==
  /\ VersionsAreWritten /\ LinksAreMarked /\ LinksAreNew /\ RemovedAreCertified
  /\ ListsAreTrue /\ LeftoversAreFew /\ GoneMeansEmpty
DirBurnInv == RegistryInv /\ NamesInv /\ PapersInv

LEMMA PapersInit == Init => PapersInv
<1> SUFFICES ASSUME Init PROVE PapersInv
  OBVIOUS
<1>1. /\ tree = [p \in Paths |-> p] /\ content = << >> /\ certs = {}
      /\ manifests = {} /\ burns = 0 /\ edits = 0 /\ standing = TRUE
      /\ walk.at = "idle" /\ walk.version = 0 /\ walk.entries = {}
  BY DEF Init, FInit, NoWalk
<1>2. VersionsAreWritten
  <2>1. (\A p \in Paths : tree[p] = p /\ p \in Written) /\ outside \in Written
    BY <1>1 DEF Init, Paths, Written, Beyond
  <2>2. DOMAIN content = {}
    BY <1>1
  <2> QED
    BY <1>1, <2>1, <2>2, ReadableFacts DEF VersionsAreWritten
<1>7. LinksAreMarked /\ LinksAreNew
  <2>1. /\ file = [p \in Paths |-> p] /\ linked = [p \in Paths |-> 0] /\ outside = Beyond
    BY <1>1 DEF Init
  <2>2. \A p \in Paths : p \in Written /\ p # Beyond
    BY <1>1 DEF Paths, Written, Beyond
  <2>3. LinkTypeOK /\ NamedOnce
    BY <2>1, <2>2 DEF LinkTypeOK, NamedOnce, NeverLinked
  <2>4. StoredOnce
    BY <1>1, <2>1, <2>2 DEF StoredOnce, NeverLinked, Handling
  <2>5. LinksAreNew
    BY <1>1 DEF LinksAreNew
  <2> QED
    BY <2>3, <2>4, <2>5 DEF LinksAreMarked
<1>3. RemovedAreCertified
  BY <1>1 DEF RemovedAreCertified
<1>4. ListsAreTrue
  <2>1. Survivors({}) = {} /\ Cardinality({}) = 0
    BY FS_EmptySet DEF Survivors
  <2>2. ListIsTrue({})
    <3>1. Cardinality(Survivors({})) <= edits
      <4>1. Cardinality(Survivors({})) = 0
        BY <2>1
      <4> QED
        BY <1>1, <4>1
    <3> QED
      BY <3>1 DEF ListIsTrue
  <2> QED
    BY <1>1, <2>2 DEF ListsAreTrue
<1>5. LeftoversAreFew
  <2>1. Certified = {}
    BY <1>1 DEF Certified
  <2>2. Counted = {}
    BY <2>1 DEF Counted, Leftover, CertifiedVersions
  <2>3. Cardinality({}) = 0 /\ ~Running
    BY <1>1, FS_EmptySet DEF Running
  <2> QED
    BY <1>1, <2>2, <2>3 DEF LeftoversAreFew
<1>6. GoneMeansEmpty
  BY <1>1 DEF GoneMeansEmpty
<1> QED
  BY <1>2, <1>3, <1>4, <1>5, <1>6, <1>7 DEF PapersInv

LEMMA PapersRest ==
  ASSUME NamesInv, PapersInv, UNCHANGED vars PROVE NamesInv' /\ PapersInv'
<1>1. /\ disk' = disk /\ registry' = registry /\ content' = content /\ certs' = certs
      /\ call' = call /\ tree' = tree /\ standing' = standing /\ walk' = walk
      /\ manifests' = manifests /\ burns' = burns /\ edits' = edits
      /\ file' = file /\ soft' = soft /\ outside' = outside /\ linked' = linked
  BY DEF vars, fvars, wvars, target
<1>2. NamesInv'
  BY <1>1 DEF NamesInv, NamesAreNew, SealedAsRead, CliSealsOthers, Unsealed, Bears
<1>3. CertifiedVersions' = CertifiedVersions
  BY <1>1 DEF CertifiedVersions, Certified
<1>4. VersionsAreWritten' /\ RemovedAreCertified' /\ GoneMeansEmpty'
  BY <1>1, <1>3 DEF PapersInv, VersionsAreWritten, Written, RemovedAreCertified, GoneMeansEmpty
<1>5. ListsAreTrue'
  BY <1>1, <1>3 DEF PapersInv, ListsAreTrue, ListIsTrue, Survivors, NeverLinked
<1>6. LeftoversAreFew'
  BY <1>1, <1>3 DEF PapersInv, LeftoversAreFew, Counted, Leftover, Running, NeverLinked
<1>7. LinksAreMarked'
  <2>1. Written' = Written /\ NeverLinked' = NeverLinked
    BY <1>1 DEF Written, NeverLinked
  <2> QED
    BY <1>1, <2>1 DEF PapersInv, LinksAreMarked, LinkTypeOK, NamedOnce, StoredOnce
<1>8. LinksAreNew'
  BY <1>1 DEF PapersInv, LinksAreNew, LinkedSince, Present
<1> QED
  BY <1>2, <1>4, <1>5, <1>6, <1>7, <1>8 DEF PapersInv

LEMMA DirBurnInvHolds == Spec => []DirBurnInv
<1>1. Init => DirBurnInv
  BY BurnInvInit, RegistryInit, NamesInit, PapersInit DEF DirBurnInv, RegistryInv
<1>2. DirBurnInv /\ [Next]_vars => DirBurnInv'
  <2> SUFFICES ASSUME DirBurnInv, [Next]_vars PROVE DirBurnInv'
    OBVIOUS
  <2>0. /\ RegistryInv /\ NamesInv /\ PapersInv /\ BurnInv
        /\ VersionsAreWritten /\ LinksAreMarked /\ LinkTypeOK /\ NamedOnce /\ LinksAreNew
        /\ RemovedAreCertified /\ ListsAreTrue /\ LeftoversAreFew /\ GoneMeansEmpty
    BY DEF DirBurnInv, PapersInv, RegistryInv, LinksAreMarked
  <2>1. RegistryInv'
    BY <2>0, RegistryStep
  <2>2. CASE Next
    <3>1. NamesInv' /\ VersionsAreWritten' /\ LinkTypeOK'
      BY <2>0, <2>2, NamesStep, VersionsStep
    <3>2. NamedOnce' /\ StoredOnce' /\ LinksAreNew'
      BY <2>0, <2>2, NamedOnceStep, StoredOnceStep, LinksStep
    <3>3. RemovedAreCertified' /\ ListsAreTrue' /\ LeftoversAreFew' /\ GoneMeansEmpty'
      BY <2>0, <2>2, RemovedStep, ListsStep, LeftoversStep, GoneStep
    <3> QED
      BY <2>1, <3>1, <3>2, <3>3 DEF DirBurnInv, PapersInv, LinksAreMarked
  <2>3. CASE UNCHANGED vars
    BY <2>0, <2>1, <2>3, PapersRest DEF DirBurnInv
  <2> QED
    BY <2>2, <2>3
<1> QED
  BY <1>1, <1>2, PTL DEF Spec

\* The papers of a directory burn are true, whatever other programs do to the target and to
\* the fileburn directory meanwhile and wherever the burn dies (dirburn.py burn_directory):
\* a burn accounts for the one certified file it has not removed yet.
THEOREM BurnPapersAreTrue == Spec => []PapersAreTrue
<1>1. DirBurnInv => PapersAreTrue
  <2> SUFFICES ASSUME DirBurnInv PROVE PapersAreTrue
    OBVIOUS
  <2>0. WalkTypeOK /\ ListsAreTrue /\ LeftoversAreFew
    BY DEF DirBurnInv, RegistryInv, BurnInv, WalkIsSound, PapersInv
  <2>1. ManifestIsTrue
    BY <2>0 DEF ManifestIsTrue, ListsAreTrue, ListIsTrue
  <2>2. CertifiedSurvivors
    <3>1. IsFiniteSet(Leftover) /\ IsFiniteSet(Counted) /\ IsFiniteSet(manifests)
      <4>1. Leftover \subseteq Paths /\ Counted \subseteq Paths
        BY DEF Counted, Leftover, NeverLinked
      <4> QED
        BY <2>0, <4>1, PathsAreFew, FS_Subset DEF WalkTypeOK
    <3>2. PICK l \in Nat : l = Cardinality(Leftover)
      BY <3>1, FS_CardinalityType
    <3>3. PICK c \in Nat : c = Cardinality(Counted)
      BY <3>1, FS_CardinalityType
    <3>4. PICK m \in Nat : m = Cardinality(manifests)
      BY <3>1, FS_CardinalityType
    <3>5. PICK b \in Nat : b = burns
      BY <2>0 DEF WalkTypeOK
    <3>6. c + m + (IF Running THEN 1 ELSE 0) <= b
      BY <2>0, <3>3, <3>4, <3>5 DEF LeftoversAreFew
    <3>7. l <= c + (IF Running THEN 1 ELSE 0)
      <4>1. CASE walk.at = "burn"
        <5>1. Leftover \in SUBSET (Counted \cup {walk.path})
          BY DEF Counted
        <5>2. Cardinality(Leftover) <= Cardinality(Counted) + 1
          BY <3>1, <5>1, OneMore
        <5>3. Running
          BY <4>1 DEF Running
        <5> QED
          BY <3>2, <3>3, <5>2, <5>3
      <4>2. CASE walk.at # "burn"
        <5>1. Counted = Leftover
          BY <4>2 DEF Counted
        <5> QED
          BY <3>2, <3>3, <5>1
      <4> QED
        BY <4>1, <4>2
    <3>8. l <= b - m
      BY <3>6, <3>7
    <3> QED
      BY <3>2, <3>4, <3>5, <3>8 DEF CertifiedSurvivors, Leftover
  <2> QED
    BY <2>1, <2>2 DEF PapersAreTrue
<1> QED
  BY <1>1, DirBurnInvHolds, PTL

\* A file goes only when the burn has sealed, burned and certified what it read at that very
\* path, and the directory is standing then: what other programs write beside the listed
\* files survives.  Another name, or the file outside, loses its content only under a link
\* made after the target was examined, or as the file of a listed path (dirburn.py
\* _enumerate, burn_directory: its checks, its list, its order and rmdir).
THEOREM BurnsDestroyWhatTheyListed == Spec => OnlyListedFilesDie
<1>1. ASSUME DirBurnInv, Next, walk' # walk, NEW p \in Paths,
             tree[p] \in Versions, tree'[p] \in {Scrap, Missing}
      PROVE  /\ p = walk.path \/ LinkedSince(p) \/ LinkedSince(walk.path)
             /\ walk.version \in CertifiedVersions \cup {Scrap} /\ standing'
  <2>0. BurnInv /\ RemovedAreCertified /\ GoneMeansEmpty /\ LinksAreNew /\ WalkTypeOK
    BY <1>1 DEF DirBurnInv, RegistryInv, BurnInv, PapersInv, WalkIsSound
  <2>1. tree'[p] # tree[p] /\ tree[p] # Missing /\ p \in Present
    BY <1>1, ReadableFacts DEF Present
  <2>2. standing
    BY <2>0, <2>1 DEF GoneMeansEmpty
  <2>3. CASE Wipes
    <3>1. walk.at = "burn" /\ walk.path \in Present
      BY <2>0, <2>3 DEF Wipes, BurnInv, WalkIsSound, InHand, Handling, Present
    <3>2. file[p] = file[walk.path]
      BY <2>0, <2>1, <2>3, WritesKeepTypes DEF Wipes, Readable
    <3> QED
      BY <2>0, <2>1, <2>2, <2>3, <3>1, <3>2 DEF Wipes, RemovedAreCertified, LinksAreNew
  <2>4. CASE Removes
    <3>1. p = walk.path
      BY <2>0, <2>1, <2>4 DEF Removes, WalkTypeOK
    <3> QED
      BY <2>0, <2>2, <2>4, <3>1 DEF Removes, RemovedAreCertified
  <2>5. Wipes \/ Removes
    BY <1>1, <2>0, <2>1, TreeMoves DEF TreeStays, Disturbs, Edit, AddLink, Disturb
  <2> QED
    BY <2>3, <2>4, <2>5
<1>2. ASSUME DirBurnInv, Next, walk' # walk, outside \in Versions, outside' = Scrap
      PROVE  /\ LinkedSince(walk.path) \/ walk.path \notin soft
             /\ walk.version \in CertifiedVersions \cup {Scrap}
  <2>0. BurnInv /\ RemovedAreCertified /\ LinksAreNew
    BY <1>2 DEF DirBurnInv, RegistryInv, BurnInv, PapersInv
  <2>1. Wipes
    BY <1>2, <2>0, TreeMoves, ReadableFacts
       DEF TreeStays, Removes, target, Disturbs, Edit, AddLink, Disturb
  <2>2. walk.at = "burn" /\ walk.path \in Present
    BY <2>0, <2>1 DEF Wipes, BurnInv, WalkIsSound, InHand, Handling, Present
  <2> QED
    BY <2>0, <2>1, <2>2 DEF Wipes, RemovedAreCertified, LinksAreNew
<1> DEFINE NothingElseDies ==
       walk' # walk =>
       /\ \A p \in Paths : (tree[p] \in Versions /\ tree'[p] \in {Scrap, Missing}) =>
            /\ p = walk.path \/ LinkedSince(p) \/ LinkedSince(walk.path)
            /\ walk.version \in CertifiedVersions \cup {Scrap} /\ standing'
       /\ (outside \in Versions /\ outside' = Scrap) =>
            /\ LinkedSince(walk.path) \/ walk.path \notin soft
            /\ walk.version \in CertifiedVersions \cup {Scrap}
<1>3. DirBurnInv /\ [Next]_vars => [NothingElseDies]_vars
  BY <1>1, <1>2
<1> QED
  BY <1>3, DirBurnInvHolds, PTL DEF Spec, OnlyListedFilesDie
=============================================================================
