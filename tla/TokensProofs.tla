---------------------------- MODULE TokensProofs ----------------------------
(***************************************************************************)
(* Proofs about Tokens, for any number of commands at once, any keys and   *)
(* any crashes.  The main theorem: the key of every token ever minted is   *)
(* on disk.                                                                *)
(***************************************************************************)
EXTENDS Tokens, FiniteSetTheorems, TLAPS

USE TokensAssumption

RunType == [kid : Kids \cup {0}, doc : KeyDoc \cup {None}, since : Ranks,
            token : TokenType \cup {None}, late : BOOLEAN, keep : SUBSET EntryType]
Steps == {"idle", "init", "save", "add", "retire", "issue", "check", "prune"}

(* The strengthening: what a command at a given step remembers.  The key   *)
(* it is about to put in force and every key of the copy of keys.json it   *)
(* is about to write have their files, also when the copy is stale.        *)
Backed(step, memory, files) ==
  /\ step \in {"save", "add", "retire"} => memory.kid \in Kids
  /\ step \in {"save", "add"} => memory.doc \in KeyDoc /\ KnownKids(memory.doc) \subseteq files
  /\ step = "issue" => memory.kid \in files
  /\ step = "check" => memory.token \in TokenType

MemoryIsBacked == \A p \in Procs : Backed(pc[p], run[p], KeyFiles)

IInv == TypeOK /\ MintedKeysExist /\ MemoryIsBacked

-----------------------------------------------------------------------------
(* What the operators do                                                   *)

\* Ranks are numbers, and 0 is one of them.
LEMMA RanksAreNumbers == Cardinality(Kids) \in Nat /\ 0 \in Ranks /\ Ranks \subseteq Nat
BY FS_CardinalityType DEF Ranks

\* The next key has a rank.
LEMMA NextRank ==
  ASSUME NEW k \in Kids \ KeyFiles
  PROVE  Cardinality(KeyFiles) + 1 \in Ranks \ {0}
<1>1. KeyFiles \in SUBSET Kids
  BY DEF KeyFiles
<1>2. IsFiniteSet(KeyFiles) /\ KeyFiles \cup {k} \in SUBSET Kids
  BY <1>1, FS_Subset
<1>3. Cardinality(KeyFiles \cup {k}) = Cardinality(KeyFiles) + 1
  BY <1>2, FS_AddElement
<1>4. Cardinality(KeyFiles \cup {k}) <= Cardinality(Kids)
  BY <1>2, FS_Subset
<1>5. Cardinality(KeyFiles) \in Nat
  BY <1>2, FS_CardinalityType
<1> QED
  BY <1>3, <1>4, <1>5, RanksAreNumbers DEF Ranks

\* Every instant of the clock is a time of the model.
LEMMA NowIsATime == now \in 0..MaxTime => now \in Times
BY DEF Times

\* Retiring the other keys drops and adds no entry.
LEMMA RetiredKeepsEntries ==
  ASSUME NEW doc \in KeyDoc, NEW kid \in Kids
  PROVE  Retired(doc, kid) \in KeyDoc /\ KnownKids(Retired(doc, kid)) \subseteq KnownKids(doc)
<1>1. ASSUME NEW k \in Kids
      PROVE  Retired(doc, kid)[k] \in [created : Times, status : {"active", "retired"}] \cup {None}
  BY DEF KeyDoc, Retired
<1>2. Retired(doc, kid) \in KeyDoc
  BY <1>1 DEF KeyDoc, Retired
<1>3. \A k \in Kids : doc[k] = None => Retired(doc, kid)[k] = None
  BY DEF Retired
<1> QED
  BY <1>2, <1>3 DEF KnownKids

\* An idle command remembers nothing.
LEMMA IdleIsBacked == NoRun \in RunType /\ \A files : Backed("idle", NoRun, files)
BY RanksAreNumbers DEF NoRun, RunType, Backed

\* A step of one command keeps the memory of all well typed and backed, when its own new
\* memory is and no key file is removed.
LEMMA GotoKeepsMemory ==
  ASSUME IInv, NEW p \in Procs, NEW next \in Steps, NEW memory \in RunType,
         Goto(p, next, memory), Backed(next, memory, KeyFiles'), KeyFiles \subseteq KeyFiles'
  PROVE  pc' \in [Procs -> Steps] /\ run' \in [Procs -> RunType] /\ MemoryIsBacked'
<1>1. pc \in [Procs -> Steps] /\ run \in [Procs -> RunType]
  BY DEF IInv, TypeOK, Steps, RunType
<1>2. pc' \in [Procs -> Steps] /\ run' \in [Procs -> RunType]
  BY <1>1 DEF Goto
<1>3. ASSUME NEW q \in Procs PROVE Backed(pc'[q], run'[q], KeyFiles')
  <2>1. CASE q = p
    BY <1>1, <2>1 DEF Goto
  <2>2. CASE q # p
    <3>1. pc'[q] = pc[q] /\ run'[q] = run[q]
      BY <1>1, <2>2 DEF Goto
    <3>2. Backed(pc[q], run[q], KeyFiles)
      BY DEF IInv, MemoryIsBacked
    <3> QED
      BY <3>1, <3>2 DEF Backed
  <2> QED
    BY <2>1, <2>2
<1> QED
  BY <1>2, <1>3 DEF MemoryIsBacked

\* The same of a command that ends.
LEMMA DoneKeepsMemory ==
  ASSUME IInv, NEW p \in Procs, Done(p), KeyFiles \subseteq KeyFiles'
  PROVE  pc' \in [Procs -> Steps] /\ run' \in [Procs -> RunType] /\ MemoryIsBacked'
BY IdleIsBacked, GotoKeepsMemory, "idle" \in Steps DEF Done, Steps

-----------------------------------------------------------------------------
(* The steps                                                               *)

\* The invariant holds of a directory without a keyring.
LEMMA InitEstablishes == Init => IInv
<1> SUFFICES ASSUME Init PROVE IInv
  OBVIOUS
<1> USE RanksAreNumbers DEF Init
<1>1. TypeOK
  <2>1. born \in [Kids -> Ranks] /\ meta \in KeyDoc /\ rotated \in Ranks
    BY DEF KeyDoc
  <2>2. pc \in [Procs -> Steps] /\ run \in [Procs -> RunType]
    BY IdleIsBacked DEF Steps
  <2>3. /\ now \in 0..MaxTime /\ crashes \in 0..MaxCrashes /\ setbacks \in 0..MaxSetbacks
        /\ tokens \subseteq TokenType /\ accepted \subseteq Jtis \X BOOLEAN
        /\ revoked \subseteq EntryType /\ acked \subseteq EntryType /\ torn \in BOOLEAN
    <3>1. 0 \in 0..MaxTime /\ 0 \in 0..MaxCrashes /\ 0 \in 0..MaxSetbacks
      BY TokensAssumption
    <3> QED
      BY <3>1
  <2> QED
    BY <2>1, <2>2, <2>3 DEF TypeOK, Steps, RunType
<1>2. MintedKeysExist
  BY DEF MintedKeysExist, KnownKids
<1>3. MemoryIsBacked
  BY IdleIsBacked DEF MemoryIsBacked
<1> QED
  BY <1>1, <1>2, <1>3 DEF IInv

\* What _gen_key leaves: the file of the new key is written, so the new entry has one.
LEMMA GenKeyKeeps ==
  ASSUME IInv, NEW p \in Procs, NEW next \in {"save", "add"}, GenKey(p, next)
  PROVE  IInv'
<1>1. PICK k \in Kids \ (KnownKids(meta) \cup KeyFiles) :
        /\ born' = [born EXCEPT ![k] = Cardinality(KeyFiles) + 1]
        /\ Goto(p, next,
             [NoRun EXCEPT !.kid = k,
                !.doc = [meta EXCEPT ![k] = [created |-> now, status |-> "active"]]])
        /\ UNCHANGED <<now, meta, rotated, rvars, tokens, accepted, env>>
  BY DEF GenKey
<1> DEFINE entry == [created |-> now, status |-> "active"]
           doc == [meta EXCEPT ![k] = entry]
           memory == [NoRun EXCEPT !.kid = k, !.doc = doc]
<1>2. born' \in [Kids -> Ranks] /\ KeyFiles' = KeyFiles \cup {k}
  <2>1. Cardinality(KeyFiles) + 1 \in Ranks \ {0}
    BY NextRank
  <2>2. born \in [Kids -> Ranks]
    BY DEF IInv, TypeOK
  <2>3. born' \in [Kids -> Ranks]
    BY <1>1, <2>1, <2>2
  <2>4. \A j \in Kids : born'[j] > 0 <=> (born[j] > 0 \/ j = k)
    BY <1>1, <2>1, <2>2, RanksAreNumbers
  <2> QED
    BY <2>3, <2>4 DEF KeyFiles
<1>3. doc \in KeyDoc /\ KnownKids(doc) \subseteq KnownKids(meta) \cup {k}
  <2>1. meta \in KeyDoc /\ now \in Times
    BY NowIsATime DEF IInv, TypeOK
  <2> QED
    BY <2>1 DEF KeyDoc, KnownKids
<1>4. KnownKids(doc) \subseteq KeyFiles'
  BY <1>2, <1>3 DEF IInv, MintedKeysExist
<1>5. memory \in RunType /\ memory.kid = k /\ memory.doc = doc
  BY <1>3, RanksAreNumbers DEF NoRun, RunType
<1>6. Backed(next, memory, KeyFiles')
  BY <1>3, <1>4, <1>5 DEF Backed
<1>7. pc' \in [Procs -> Steps] /\ run' \in [Procs -> RunType] /\ MemoryIsBacked'
  <2>1. Goto(p, next, memory) /\ next \in Steps /\ KeyFiles \subseteq KeyFiles'
    BY <1>1, <1>2 DEF Steps
  <2> HIDE DEF memory
  <2> QED
    BY <1>5, <1>6, <2>1, GotoKeepsMemory
<1>8. TypeOK'
  BY <1>1, <1>2, <1>7 DEF IInv, TypeOK, Steps, RunType, rvars, env
<1>9. MintedKeysExist'
  BY <1>1, <1>2 DEF IInv, MintedKeysExist, KnownKids
<1> QED
  BY <1>7, <1>8, <1>9 DEF IInv

\* Nothing of what the invariant speaks of changes but one command's memory.
LEMMA QuietKeeps ==
  ASSUME IInv, UNCHANGED <<now, born, meta, rotated, tokens>>,
         revoked' \subseteq EntryType, acked' \subseteq EntryType, torn' \in BOOLEAN,
         accepted' \subseteq Jtis \X BOOLEAN,
         crashes' \in 0..MaxCrashes, setbacks' \in 0..MaxSetbacks,
         pc' \in [Procs -> Steps], run' \in [Procs -> RunType], MemoryIsBacked'
  PROVE  IInv'
<1>1. TypeOK'
  BY DEF IInv, TypeOK, Steps, RunType
<1>2. MintedKeysExist'
  BY DEF IInv, MintedKeysExist, KnownKids, KeyFiles
<1> QED
  BY <1>1, <1>2 DEF IInv

\* init and rotate-keys keep the invariant: a copy of keys.json that is saved names only
\* keys that have files.
LEMMA RotationKeeps == ASSUME IInv, NEW p \in Procs, Rotation(p) PROVE IInv'
<1>1. CASE InitKeyring(p)
  <2>1. UNCHANGED KeyFiles
    BY <1>1 DEF InitKeyring, KeyFiles, kvars
  <2>2. Backed("init", NoRun, KeyFiles') /\ "init" \in Steps
    BY DEF Backed, Steps
  <2>3. pc' \in [Procs -> Steps] /\ run' \in [Procs -> RunType] /\ MemoryIsBacked'
    BY <1>1, <2>1, <2>2, IdleIsBacked, GotoKeepsMemory DEF InitKeyring
  <2> QED
    BY <1>1, <2>3, QuietKeeps DEF InitKeyring, IInv, TypeOK, kvars, rvars, env
<1>2. CASE FirstKey(p)
  BY <1>2, GenKeyKeeps DEF FirstKey
<1>3. CASE RotateKeys(p)
  BY <1>3, GenKeyKeeps DEF RotateKeys
<1>4. CASE AddKey(p)
  <2>1. Backed(pc[p], run[p], KeyFiles) /\ run[p] \in RunType
    BY DEF IInv, MemoryIsBacked, TypeOK, RunType
  <2>2. meta' \in KeyDoc /\ KnownKids(meta') \subseteq KeyFiles /\ UNCHANGED KeyFiles
    BY <1>4, <2>1 DEF AddKey, Backed, KeyFiles
  <2>3. Backed("retire", run[p], KeyFiles') /\ "retire" \in Steps
    BY <1>4, <2>1 DEF AddKey, Backed, Steps
  <2>4. pc' \in [Procs -> Steps] /\ run' \in [Procs -> RunType] /\ MemoryIsBacked'
    BY <1>4, <2>1, <2>2, <2>3, GotoKeepsMemory DEF AddKey
  <2>5. TypeOK'
    BY <1>4, <2>2, <2>4 DEF AddKey, IInv, TypeOK, Steps, RunType, rvars, env
  <2>6. MintedKeysExist'
    BY <1>4, <2>2 DEF AddKey, IInv, MintedKeysExist
  <2> QED
    BY <2>4, <2>5, <2>6 DEF IInv
<1>5. CASE RetireOthers(p)
  <2> DEFINE doc == Retired(meta, run[p].kid)
             memory == [run[p] EXCEPT !.doc = doc]
  <2>1. run[p] \in RunType /\ run[p].kid \in Kids
    BY <1>5 DEF RetireOthers, IInv, TypeOK, RunType, MemoryIsBacked, Backed
  <2>2. doc \in KeyDoc /\ KnownKids(doc) \subseteq KeyFiles
    BY <2>1, RetiredKeepsEntries DEF IInv, TypeOK, MintedKeysExist
  <2>3. UNCHANGED KeyFiles
    BY <1>5 DEF RetireOthers, KeyFiles, kvars
  <2>4. memory \in RunType /\ memory.kid = run[p].kid /\ memory.doc = doc
    <3> HIDE DEF doc
    <3> QED
      BY <2>1, <2>2 DEF RunType
  <2>5. Backed("save", memory, KeyFiles') /\ "save" \in Steps
    BY <2>1, <2>2, <2>3, <2>4 DEF Backed, Steps
  <2>6. Goto(p, "save", memory)
    BY <1>5 DEF RetireOthers
  <2> HIDE DEF memory
  <2>7. pc' \in [Procs -> Steps] /\ run' \in [Procs -> RunType] /\ MemoryIsBacked'
    BY <2>3, <2>4, <2>5, <2>6, GotoKeepsMemory
  <2> QED
    BY <1>5, <2>7, QuietKeeps DEF RetireOthers, IInv, TypeOK, kvars, rvars, env
<1>6. CASE SaveLast(p)
  <2>1. Backed(pc[p], run[p], KeyFiles)
    BY DEF IInv, MemoryIsBacked
  <2>2. meta' \in KeyDoc /\ KnownKids(meta') \subseteq KeyFiles /\ UNCHANGED KeyFiles
    BY <1>6, <2>1 DEF SaveLast, Backed, KeyFiles
  <2>3. rotated' \in Ranks
    BY <1>6, <2>1 DEF SaveLast, Backed, IInv, TypeOK
  <2>4. pc' \in [Procs -> Steps] /\ run' \in [Procs -> RunType] /\ MemoryIsBacked'
    BY <1>6, <2>2, DoneKeepsMemory DEF SaveLast
  <2>5. TypeOK'
    BY <1>6, <2>2, <2>3, <2>4 DEF SaveLast, IInv, TypeOK, Steps, RunType, rvars, env
  <2>6. MintedKeysExist'
    BY <1>6, <2>2 DEF SaveLast, IInv, MintedKeysExist
  <2> QED
    BY <2>4, <2>5, <2>6 DEF IInv
<1> QED
  BY <1>1, <1>2, <1>3, <1>4, <1>5, <1>6 DEF Rotation

\* mint and verify keep it: a token is minted with a key whose file was seen.
LEMMA BearerKeeps == ASSUME IInv, NEW p \in Procs, Bearer(p) PROVE IInv'
<1>1. CASE Mint(p)
  <2>1. PICK k \in Kids : /\ k \in KeyFiles
                          /\ Goto(p, "issue", [NoRun EXCEPT !.kid = k, !.since = rotated])
    BY <1>1 DEF Mint
  <2> DEFINE memory == [NoRun EXCEPT !.kid = k, !.since = rotated]
  <2>2. memory \in RunType /\ memory.kid = k
    BY DEF IInv, TypeOK, NoRun, RunType
  <2>3. UNCHANGED KeyFiles
    BY <1>1 DEF Mint, KeyFiles, kvars
  <2>4. Backed("issue", memory, KeyFiles') /\ "issue" \in Steps
    BY <2>1, <2>2, <2>3 DEF Backed, Steps
  <2>5. Goto(p, "issue", memory)
    BY <2>1
  <2> HIDE DEF memory
  <2>6. pc' \in [Procs -> Steps] /\ run' \in [Procs -> RunType] /\ MemoryIsBacked'
    BY <2>2, <2>3, <2>4, <2>5, GotoKeepsMemory
  <2> QED
    BY <1>1, <2>6, QuietKeeps DEF Mint, IInv, TypeOK, kvars, rvars, env
<1>2. CASE Issue(p)
  <2>1. run[p] \in RunType /\ run[p].kid \in KeyFiles
    BY <1>2 DEF Issue, IInv, TypeOK, RunType, MemoryIsBacked, Backed
  <2>2. PICK jti \in Jtis, ttl \in 1..MAX_TTL :
          tokens' = tokens \cup
            {[jti |-> jti, kid |-> run[p].kid, iat |-> now, exp |-> now + ttl,
              since |-> run[p].since]}
    BY <1>2 DEF Issue
  <2>3. now \in Times /\ now + ttl \in Times
    BY DEF IInv, TypeOK, Times
  <2>4. run[p].kid \in Kids /\ run[p].since \in Ranks
    BY <2>1 DEF KeyFiles, RunType
  <2>5. tokens' \subseteq TokenType
    BY <2>2, <2>3, <2>4 DEF TokenType, IInv, TypeOK
  <2>6. UNCHANGED KeyFiles
    BY <1>2 DEF Issue, KeyFiles, kvars
  <2>7. pc' \in [Procs -> Steps] /\ run' \in [Procs -> RunType] /\ MemoryIsBacked'
    BY <1>2, <2>6, DoneKeepsMemory DEF Issue
  <2>8. TypeOK'
    BY <1>2, <2>5, <2>7 DEF Issue, IInv, TypeOK, Steps, RunType, kvars, rvars, env
  <2>9. MintedKeysExist'
    BY <1>2, <2>1, <2>2, <2>6 DEF Issue, IInv, MintedKeysExist, KnownKids, kvars
  <2> QED
    BY <2>7, <2>8, <2>9 DEF IInv
<1>3. ASSUME NEW t \in tokens, Verify(p, t) PROVE IInv'
  <2> DEFINE late == t.jti \in {e.jti : e \in acked}
             memory == [NoRun EXCEPT !.token = t, !.late = late]
  <2>0. late \in BOOLEAN
    OBVIOUS
  <2>5. Goto(p, "check", memory)
    BY <1>3, Zenon DEF Verify
  <2> HIDE DEF late
  <2>1. t \in TokenType
    BY DEF IInv, TypeOK
  <2>2. memory \in RunType /\ memory.token = t
    BY <2>0, <2>1, RanksAreNumbers DEF NoRun, RunType
  <2>3. UNCHANGED KeyFiles
    BY <1>3 DEF Verify, KeyFiles, kvars
  <2>4. Backed("check", memory, KeyFiles') /\ "check" \in Steps
    BY <2>1, <2>2 DEF Backed, Steps
  <2> HIDE DEF memory
  <2>6. pc' \in [Procs -> Steps] /\ run' \in [Procs -> RunType] /\ MemoryIsBacked'
    BY <2>2, <2>3, <2>4, <2>5, GotoKeepsMemory
  <2> QED
    BY <1>3, <2>6, QuietKeeps DEF Verify, IInv, TypeOK, kvars, rvars, env
<1>4. CASE CheckRevoked(p)
  <2>1. run[p].token \in TokenType /\ run[p].late \in BOOLEAN
    BY <1>4 DEF CheckRevoked, IInv, TypeOK, MemoryIsBacked, Backed
  <2>2. run[p].token.jti \in Jtis
    BY <2>1 DEF TokenType
  <2>3. accepted' \subseteq Jtis \X BOOLEAN
    BY <1>4, <2>1, <2>2 DEF CheckRevoked, IInv, TypeOK
  <2>4. UNCHANGED KeyFiles
    BY <1>4 DEF CheckRevoked, KeyFiles, kvars
  <2>5. pc' \in [Procs -> Steps] /\ run' \in [Procs -> RunType] /\ MemoryIsBacked'
    BY <1>4, <2>4, DoneKeepsMemory DEF CheckRevoked
  <2> QED
    BY <1>4, <2>3, <2>5, QuietKeeps DEF CheckRevoked, IInv, TypeOK, kvars, rvars, env
<1> QED
  BY <1>1, <1>2, <1>3, <1>4 DEF Bearer

\* revoke and prune-revoked touch the list only.
LEMMA RevocationKeeps == ASSUME IInv, NEW p \in Procs, Revocation(p) PROVE IInv'
<1>1. ASSUME NEW t \in tokens, NEW bare \in BOOLEAN, Revoke(p, t, bare) PROVE IInv'
  <2>1. Entry(t, bare) \in EntryType
    BY DEF Entry, EntryType, TokenType, IInv, TypeOK
  <2>2. revoked' \subseteq EntryType /\ acked' \subseteq EntryType
    BY <1>1, <2>1 DEF Revoke, IInv, TypeOK
  <2>3. pc' \in [Procs -> Steps] /\ run' \in [Procs -> RunType] /\ MemoryIsBacked'
    BY <1>1 DEF Revoke, IInv, TypeOK, Steps, RunType, MemoryIsBacked, Backed, KeyFiles, kvars
  <2> QED
    BY <1>1, <2>2, <2>3, QuietKeeps DEF Revoke, IInv, TypeOK, kvars, env
<1>2. CASE RevokeTorn(p)
  <2>1. pc' \in [Procs -> Steps] /\ run' \in [Procs -> RunType] /\ MemoryIsBacked'
    BY <1>2 DEF RevokeTorn, IInv, TypeOK, Steps, RunType, MemoryIsBacked, Backed, KeyFiles, kvars
  <2>2. crashes' \in 0..MaxCrashes
    BY <1>2 DEF RevokeTorn, IInv, TypeOK
  <2> QED
    BY <1>2, <2>1, <2>2, QuietKeeps DEF RevokeTorn, IInv, TypeOK, kvars
<1>3. CASE PruneRevoked(p)
  <2> DEFINE keep == {e \in revoked : ~Prunable(e)}
             memory == [NoRun EXCEPT !.keep = keep]
  <2>1. memory \in RunType
    <3>1. keep \in SUBSET EntryType
      BY DEF IInv, TypeOK
    <3> HIDE DEF keep
    <3> QED
      BY <3>1, RanksAreNumbers DEF NoRun, RunType
  <2>2. UNCHANGED KeyFiles
    BY <1>3 DEF PruneRevoked, KeyFiles, kvars
  <2>3. Backed("prune", memory, KeyFiles') /\ "prune" \in Steps
    BY DEF Backed, Steps
  <2>4. Goto(p, "prune", memory)
    BY <1>3 DEF PruneRevoked
  <2> HIDE DEF memory
  <2>5. pc' \in [Procs -> Steps] /\ run' \in [Procs -> RunType] /\ MemoryIsBacked'
    BY <2>1, <2>2, <2>3, <2>4, GotoKeepsMemory
  <2> QED
    BY <1>3, <2>5, QuietKeeps DEF PruneRevoked, IInv, TypeOK, kvars, rvars, env
<1>4. CASE ReplaceList(p)
  <2>1. revoked' \subseteq EntryType
    BY <1>4 DEF ReplaceList, IInv, TypeOK
  <2>2. UNCHANGED KeyFiles
    BY <1>4 DEF ReplaceList, KeyFiles, kvars
  <2>3. pc' \in [Procs -> Steps] /\ run' \in [Procs -> RunType] /\ MemoryIsBacked'
    BY <1>4, <2>2, DoneKeepsMemory DEF ReplaceList
  <2> QED
    BY <1>4, <2>1, <2>3, QuietKeeps DEF ReplaceList, IInv, TypeOK, kvars, env
<1> QED
  BY <1>1, <1>2, <1>3, <1>4 DEF Revocation

\* A command that dies forgets what it knew; its key file stays.
LEMMA CrashKeeps == ASSUME IInv, NEW p \in Procs, Crash(p) PROVE IInv'
<1>1. UNCHANGED KeyFiles
  BY DEF Crash, KeyFiles, kvars
<1>2. pc' \in [Procs -> Steps] /\ run' \in [Procs -> RunType] /\ MemoryIsBacked'
  BY <1>1, DoneKeepsMemory DEF Crash
<1>3. crashes' \in 0..MaxCrashes
  BY DEF Crash, IInv, TypeOK
<1> QED
  BY <1>2, <1>3, QuietKeeps DEF Crash, IInv, TypeOK, kvars, rvars

\* The clock, forwards and backwards.
LEMMA ClockKeeps == ASSUME IInv, Tick \/ Setback PROVE IInv'
<1>1. now' \in 0..MaxTime /\ setbacks' \in 0..MaxSetbacks /\ crashes' = crashes
  BY DEF Tick, Setback, IInv, TypeOK, env
<1>2. UNCHANGED <<born, meta, rotated, revoked, torn, acked, pc, run, tokens, accepted>>
  BY DEF Tick, Setback, kvars, rvars
<1>3. TypeOK'
  BY <1>1, <1>2 DEF IInv, TypeOK
<1>4. MintedKeysExist' /\ MemoryIsBacked'
  BY <1>2 DEF IInv, MintedKeysExist, MemoryIsBacked, Backed, KnownKids, KeyFiles
<1> QED
  BY <1>3, <1>4 DEF IInv

\* Every step of every command, crash and movement of the clock preserves the invariant.
LEMMA StepPreserves == IInv /\ [Next]_vars => IInv'
<1> SUFFICES ASSUME IInv, [Next]_vars PROVE IInv'
  OBVIOUS
<1>1. ASSUME NEW p \in Procs, Rotation(p) \/ Bearer(p) \/ Revocation(p) \/ Crash(p)
      PROVE  IInv'
  BY <1>1, RotationKeeps, BearerKeeps, RevocationKeeps, CrashKeeps
<1>2. CASE Tick \/ Setback
  BY <1>2, ClockKeeps
<1>3. CASE UNCHANGED vars
  <2>1. UNCHANGED <<now, born, meta, rotated, revoked, torn, acked, pc, run, tokens,
                    accepted, crashes, setbacks>>
    BY <1>3 DEF vars, kvars, rvars, env
  <2>2. MintedKeysExist' /\ MemoryIsBacked'
    BY <2>1 DEF IInv, MintedKeysExist, MemoryIsBacked, Backed, KnownKids, KeyFiles
  <2> QED
    BY <2>1, <2>2 DEF IInv, TypeOK
<1> QED
  BY <1>1, <1>2, <1>3 DEF Next

\* Type correctness: the files, the tokens handed out and every command's memory have
\* their types, whatever commands interleave and die.
THEOREM TypeCorrect == Spec => []TypeOK
<1>1. Init => IInv
  BY InitEstablishes
<1>2. IInv /\ [Next]_vars => IInv'
  BY StepPreserves
<1>3. IInv => TypeOK
  BY DEF IInv
<1> QED
  BY <1>1, <1>2, <1>3, PTL DEF Spec

\* The key of every token ever minted, and of every entry of keys.json, is on disk:
\* although commands overwrite each other's keys.json from stale copies, no copy names a
\* key whose file _gen_key has not written, and no command removes one.
THEOREM EveryTokenHasItsKey == Spec => []MintedKeysExist
<1>1. Init => IInv
  BY InitEstablishes
<1>2. IInv /\ [Next]_vars => IInv'
  BY StepPreserves
<1>3. IInv => MintedKeysExist
  BY DEF IInv
<1> QED
  BY <1>1, <1>2, <1>3, PTL DEF Spec

-----------------------------------------------------------------------------
(* Keys in force.  Mint, verify, revoke and prune-revoked may run at the   *)
(* same time in any number; the one thing assumed is that no two commands  *)
(* change keys.json at once (no lock in the code excludes it).             *)

Rotating == {"init", "save", "add", "retire"}
OneRotation == \A p, q \in Procs : pc[p] \in Rotating /\ pc[q] \in Rotating => p = q

\* What a command that holds a copy of keys.json, or a key to mint with, relies on.
KeyMemory(p) ==
  /\ pc[p] = "init" => ~Initialized
  /\ pc[p] \in {"save", "add"} => run[p].kid \in Active(run[p].doc)
  /\ pc[p] = "save" => Active(run[p].doc) = {run[p].kid}
  /\ pc[p] = "add" => \A k \in Active(run[p].doc) : born[k] >= rotated
  /\ pc[p] = "retire" => run[p].kid \in Active(meta)
  /\ pc[p] \in {"save", "add", "retire"} => born[run[p].kid] >= rotated
  /\ pc[p] = "issue" => born[run[p].kid] >= run[p].since

KeyMemories == \A p \in Procs : KeyMemory(p)

KeysRanked ==
  /\ \A k \in Active(meta) : born[k] >= rotated
  /\ \A k \in Kids : born[k] <= Cardinality(KeyFiles)
  /\ rotated <= Cardinality(KeyFiles)

KInv == ActiveKeyExists /\ OldKidsNeverMint /\ KeysRanked /\ KeyMemories

\* What a step of one command does to the steps and memories of all.
LEMMA GotoMoves ==
  ASSUME IInv, NEW p \in Procs, NEW next, NEW memory, Goto(p, next, memory)
  PROVE  /\ pc'[p] = next /\ run'[p] = memory
         /\ \A q \in Procs \ {p} : pc'[q] = pc[q] /\ run'[q] = run[q]
BY DEF Goto, IInv, TypeOK

\* The numbers the ranks are compared with.
LEMMA RanksAreTyped ==
  ASSUME IInv
  PROVE  /\ rotated \in Nat /\ \A k \in Kids : born[k] \in Nat
         /\ IsFiniteSet(KeyFiles) /\ Cardinality(KeyFiles) \in Nat
         /\ Active(meta) \subseteq KeyFiles /\ KeyFiles \subseteq Kids
         /\ \A t \in tokens : t.kid \in KeyFiles /\ t.since \in Nat
<1>1. KeyFiles \subseteq Kids
  BY DEF KeyFiles
<1>2. IsFiniteSet(KeyFiles) /\ Cardinality(KeyFiles) \in Nat
  BY <1>1, FS_Subset, FS_CardinalityType
<1>3. rotated \in Nat /\ \A k \in Kids : born[k] \in Nat
  BY RanksAreNumbers DEF IInv, TypeOK
<1>4. Active(meta) \subseteq KeyFiles
  BY DEF IInv, MintedKeysExist, Active
<1>5. \A t \in tokens : t.kid \in KeyFiles /\ t.since \in Nat
  BY RanksAreNumbers DEF IInv, MintedKeysExist, TypeOK, TokenType
<1> QED
  BY <1>1, <1>2, <1>3, <1>4, <1>5

\* A step that leaves the keys alone keeps what it and the others rely on.
LEMMA KeyMemoriesKept ==
  ASSUME IInv, KeyMemories, NEW p \in Procs, NEW next, NEW memory, Goto(p, next, memory),
         UNCHANGED kvars, KeyMemory(p)'
  PROVE  KeyMemories'
<1>1. ASSUME NEW q \in Procs \ {p} PROVE KeyMemory(q)'
  <2>1. pc'[q] = pc[q] /\ run'[q] = run[q] /\ UNCHANGED <<born, meta, rotated>>
    BY GotoMoves DEF kvars
  <2>2. KeyMemory(q)
    BY DEF KeyMemories
  <2> QED
    BY <2>1, <2>2 DEF KeyMemory, Initialized, KnownKids, Active
<1> QED
  BY <1>1 DEF KeyMemories

\* A step that leaves the keys and the tokens alone keeps the invariant.
LEMMA KeysQuiet ==
  ASSUME IInv, KInv, UNCHANGED <<kvars, tokens>>, KeyMemories'
  PROVE  KInv'
BY DEF KInv, ActiveKeyExists, OldKidsNeverMint, KeysRanked, Initialized, KnownKids, Active,
       KeyFiles, kvars

\* While one command rotates, what the others rely on is the key they mint with.
LEMMA BystandersKeep ==
  ASSUME IInv, KeyMemories, OneRotation, OneRotation', NEW p \in Procs, NEW next, NEW memory,
         Goto(p, next, memory), pc[p] \in Rotating \/ next \in Rotating,
         \A k \in KeyFiles : born'[k] = born[k], KeyMemory(p)'
  PROVE  KeyMemories'
<1>1. ASSUME NEW q \in Procs \ {p} PROVE KeyMemory(q)'
  <2>1. pc'[p] = next /\ pc'[q] = pc[q] /\ run'[q] = run[q]
    BY GotoMoves
  <2>2. pc'[q] \notin Rotating
    BY <2>1 DEF OneRotation
  <2>3. pc[q] = "issue" => run[q].kid \in KeyFiles /\ born[run[q].kid] >= run[q].since
    BY DEF KeyMemories, KeyMemory, IInv, MemoryIsBacked, Backed
  <2> QED
    BY <2>1, <2>2, <2>3 DEF KeyMemory, Rotating
<1> QED
  BY <1>1 DEF KeyMemories

\* _gen_key: the new key is younger than every key in force.
LEMMA GenKeyRanks ==
  ASSUME IInv, IInv', KInv, OneRotation, OneRotation', NEW p \in Procs,
         NEW next \in {"save", "add"}, GenKey(p, next), next = "save" => ~Initialized
  PROVE  KInv'
<1>1. PICK k \in Kids \ (KnownKids(meta) \cup KeyFiles) :
        /\ born' = [born EXCEPT ![k] = Cardinality(KeyFiles) + 1]
        /\ Goto(p, next,
             [NoRun EXCEPT !.kid = k,
                !.doc = [meta EXCEPT ![k] = [created |-> now, status |-> "active"]]])
        /\ UNCHANGED <<meta, rotated, tokens>>
  BY DEF GenKey
<1> DEFINE doc == [meta EXCEPT ![k] = [created |-> now, status |-> "active"]]
           memory == [NoRun EXCEPT !.kid = k, !.doc = doc]
<1>2. born \in [Kids -> Ranks] /\ meta \in KeyDoc
  BY DEF IInv, TypeOK
<1>3. /\ born'[k] = Cardinality(KeyFiles) + 1
      /\ \A j \in Kids \ {k} : born'[j] = born[j]
  BY <1>1, <1>2
<1>4. KeyFiles' = KeyFiles \cup {k}
  <2>1. Cardinality(KeyFiles) + 1 > 0
    BY RanksAreTyped
  <2>2. \A j \in Kids : born'[j] > 0 <=> (born[j] > 0 \/ j = k)
    BY <1>3, <2>1
  <2> QED
    BY <2>2 DEF KeyFiles
<1>5. Cardinality(KeyFiles') = Cardinality(KeyFiles) + 1
  BY <1>1, <1>4, RanksAreTyped, FS_AddElement
<1>6. Active(doc) = Active(meta) \cup {k}
  <2>1. \A j \in Kids : doc[j] = IF j = k THEN [created |-> now, status |-> "active"]
                                           ELSE meta[j]
    BY <1>2 DEF KeyDoc
  <2>2. [created |-> now, status |-> "active"] # None
    BY DEF IInv, TypeOK
  <2> QED
    BY <1>1, <2>1, <2>2 DEF Active, KnownKids
<1>7. memory.kid = k /\ memory.doc = doc
  BY DEF NoRun
<1>8. pc'[p] = next /\ run'[p] = memory
  BY <1>1, GotoMoves
<1>9. \A j \in Active(meta) \cup {k} : born'[j] >= rotated
  BY <1>1, <1>3, RanksAreTyped DEF KInv, KeysRanked
<1>10. next = "save" => Active(meta) = {}
  BY DEF Initialized, Active
<1>11. KeyMemory(p)'
  <2> HIDE DEF doc, memory
  <2>1. Active(run'[p].doc) = Active(meta) \cup {k} /\ run'[p].kid = k
    BY <1>6, <1>7, <1>8
  <2> QED
    BY <1>1, <1>8, <1>9, <1>10, <2>1 DEF KeyMemory, Active, KnownKids
<1>12. KeyMemories'
  <2>1. \A j \in KeyFiles : born'[j] = born[j]
    BY <1>1, <1>3, RanksAreTyped
  <2>2. Goto(p, next, memory) /\ next \in Rotating
    BY <1>1 DEF Rotating
  <2> HIDE DEF memory
  <2> QED
    BY <1>11, <2>1, <2>2, BystandersKeep DEF KInv
<1>13. KeysRanked'
  <2>1. \A j \in Kids : born'[j] <= Cardinality(KeyFiles) + 1
    BY <1>3, RanksAreTyped DEF KInv, KeysRanked
  <2>2. rotated' <= Cardinality(KeyFiles) + 1
    BY <1>1, RanksAreTyped DEF KInv, KeysRanked
  <2>3. Active(meta)' = Active(meta)
    BY <1>1 DEF Active, KnownKids
  <2> QED
    BY <1>1, <1>5, <1>9, <2>1, <2>2, <2>3 DEF KeysRanked
<1>14. ActiveKeyExists'
  BY <1>1 DEF KInv, ActiveKeyExists, Initialized, Active, KnownKids
<1>15. OldKidsNeverMint'
  BY <1>1, <1>3, RanksAreTyped DEF KInv, OldKidsNeverMint
<1> QED
  BY <1>12, <1>13, <1>14, <1>15 DEF KInv

\* A save puts a document in force that has an active key, and none older than the newest
\* key an init or rotate-keys that returned has made.
LEMMA SaveRanks ==
  ASSUME IInv, KInv, KeyMemories', UNCHANGED <<born, tokens>>, Active(meta') # {},
         \A k \in Active(meta') : born[k] >= rotated', rotated' <= Cardinality(KeyFiles)
  PROVE  KInv'
BY DEF KInv, ActiveKeyExists, OldKidsNeverMint, KeysRanked, KeyFiles, Active, KnownKids

\* init and rotate-keys.
LEMMA RotationRanks ==
  ASSUME IInv, IInv', KInv, OneRotation, OneRotation', NEW p \in Procs, Rotation(p)
  PROVE  KInv'
<1>0. KeyMemories /\ KeyMemory(p)
  BY DEF KInv, KeyMemories
<1>1. CASE InitKeyring(p)
  <2>1. pc'[p] = "init" /\ UNCHANGED <<kvars, tokens>>
    BY <1>1, GotoMoves DEF InitKeyring
  <2>2. KeyMemory(p)'
    BY <1>1, <2>1 DEF InitKeyring, KeyMemory, Initialized, KnownKids, kvars
  <2>3. KeyMemories'
    BY <1>0, <1>1, <2>1, <2>2, KeyMemoriesKept DEF InitKeyring
  <2> QED
    BY <2>1, <2>3, KeysQuiet
<1>2. CASE FirstKey(p)
  BY <1>0, <1>2, GenKeyRanks DEF FirstKey, KeyMemory
<1>3. CASE RotateKeys(p)
  BY <1>3, GenKeyRanks DEF RotateKeys
<1>4. CASE AddKey(p)
  <2>1. pc'[p] = "retire" /\ run'[p] = run[p] /\ meta' = run[p].doc
        /\ UNCHANGED <<born, rotated, tokens>> /\ pc[p] = "add"
    BY <1>4, GotoMoves DEF AddKey
  <2>2. KeyMemory(p)'
    BY <1>0, <2>1 DEF KeyMemory
  <2>3. KeyMemories'
    BY <1>0, <1>4, <2>1, <2>2, BystandersKeep DEF AddKey, Rotating
  <2>4. Active(meta') # {} /\ \A k \in Active(meta') : born[k] >= rotated'
    BY <1>0, <2>1 DEF KeyMemory
  <2> QED
    BY <2>1, <2>3, <2>4, SaveRanks DEF KInv, KeysRanked
<1>5. CASE RetireOthers(p)
  <2> DEFINE doc == Retired(meta, run[p].kid)
             memory == [run[p] EXCEPT !.doc = doc]
  <2>1. /\ run[p] \in RunType /\ meta \in KeyDoc /\ run[p].kid \in Active(meta)
        /\ born[run[p].kid] >= rotated
    BY <1>0, <1>5 DEF RetireOthers, IInv, TypeOK, RunType, KeyMemory
  <2>2. Active(doc) = {run[p].kid}
    BY <2>1 DEF Retired, Active, KnownKids, KeyDoc
  <2>3. memory.kid = run[p].kid /\ memory.doc = doc
    BY <2>1 DEF RunType
  <2>4. Goto(p, "save", memory) /\ UNCHANGED <<kvars, tokens>>
    BY <1>5 DEF RetireOthers
  <2> HIDE DEF doc, memory
  <2>5. pc'[p] = "save" /\ run'[p] = memory
    BY <2>4, GotoMoves
  <2>6. KeyMemory(p)'
    BY <2>1, <2>2, <2>3, <2>4, <2>5 DEF KeyMemory, Active, KnownKids, kvars
  <2>7. KeyMemories'
    BY <1>0, <2>4, <2>6, KeyMemoriesKept
  <2> QED
    BY <2>4, <2>7, KeysQuiet
<1>6. CASE SaveLast(p)
  <2>1. /\ pc[p] = "save" /\ pc'[p] = "idle" /\ meta' = run[p].doc
        /\ UNCHANGED <<born, tokens>> /\ Goto(p, "idle", NoRun)
    BY <1>6, GotoMoves DEF SaveLast, Done
  <2>2. KeyMemories'
    <3>1. KeyMemory(p)'
      BY <2>1 DEF KeyMemory
    <3> QED
      BY <1>0, <2>1, <3>1, BystandersKeep DEF Rotating
  <2>3. Active(meta') = {run[p].kid} /\ run[p].kid \in Kids
    BY <1>0, <2>1 DEF KeyMemory, IInv, MemoryIsBacked, Backed
  <2>4. rotated' = born[run[p].kid]
    <3>1. born[run[p].kid] \in Nat /\ rotated \in Nat
      BY <2>3, RanksAreTyped
    <3>2. born[run[p].kid] >= rotated
      BY <1>0, <2>1 DEF KeyMemory
    <3>3. rotated' = IF born[run[p].kid] > rotated THEN born[run[p].kid] ELSE rotated
      BY <1>6 DEF SaveLast
    <3> QED
      BY <3>1, <3>2, <3>3
  <2>5. rotated' <= Cardinality(KeyFiles) /\ \A k \in Active(meta') : born[k] >= rotated'
    <3>1. born[run[p].kid] \in Nat /\ born[run[p].kid] <= Cardinality(KeyFiles)
      BY <2>3, RanksAreTyped DEF KInv, KeysRanked
    <3> QED
      BY <2>3, <2>4, <3>1
  <2> QED
    BY <2>1, <2>2, <2>3, <2>5, SaveRanks
<1> QED
  BY <1>1, <1>2, <1>3, <1>4, <1>5, <1>6 DEF Rotation

\* The other steps of a command leave the keys alone; a mint starts from a key in force
\* and may end after a rotation that began later.
LEMMA OthersKeepRanks ==
  ASSUME IInv, IInv', KInv, NEW p \in Procs, Bearer(p) \/ Revocation(p) \/ Crash(p)
  PROVE  KInv'
<1>0. KeyMemories /\ KeyMemory(p)
  BY DEF KInv, KeyMemories
<1>1. CASE Mint(p)
  <2>1. PICK k \in Kids : /\ IsActiveKid(k)
                          /\ Goto(p, "issue", [NoRun EXCEPT !.kid = k, !.since = rotated])
    BY <1>1 DEF Mint
  <2> DEFINE memory == [NoRun EXCEPT !.kid = k, !.since = rotated]
  <2>2. memory.kid = k /\ memory.since = rotated
    BY DEF NoRun
  <2>3. pc'[p] = "issue" /\ run'[p] = memory /\ UNCHANGED <<kvars, tokens>>
    BY <1>1, <2>1, GotoMoves DEF Mint
  <2>4. born[k] >= rotated
    BY <2>1 DEF IsActiveKid, KInv, KeysRanked
  <2>5. Goto(p, "issue", memory)
    BY <2>1
  <2> HIDE DEF memory
  <2>6. KeyMemory(p)'
    BY <2>2, <2>3, <2>4 DEF KeyMemory, kvars
  <2>7. KeyMemories'
    BY <1>0, <2>3, <2>5, <2>6, KeyMemoriesKept
  <2> QED
    BY <2>3, <2>7, KeysQuiet
<1>2. CASE Issue(p)
  <2>1. pc[p] = "issue" /\ pc'[p] = "idle" /\ UNCHANGED kvars /\ Goto(p, "idle", NoRun)
    BY <1>2, GotoMoves DEF Issue, Done
  <2>2. KeyMemories'
    <3>1. KeyMemory(p)'
      BY <2>1 DEF KeyMemory
    <3> QED
      BY <1>0, <2>1, <3>1, KeyMemoriesKept
  <2>3. PICK jti \in Jtis, ttl \in 1..MAX_TTL :
          tokens' = tokens \cup
            {[jti |-> jti, kid |-> run[p].kid, iat |-> now, exp |-> now + ttl,
              since |-> run[p].since]}
    BY <1>2 DEF Issue
  <2>4. OldKidsNeverMint'
    BY <1>0, <2>1, <2>3 DEF KInv, OldKidsNeverMint, KeyMemory, kvars
  <2> QED
    BY <2>1, <2>2, <2>4 DEF KInv, ActiveKeyExists, KeysRanked, Initialized, KnownKids, Active,
                            KeyFiles, kvars
<1>3. ASSUME NEW next \in {"idle", "check", "prune"}, NEW memory, Goto(p, next, memory),
             UNCHANGED <<kvars, tokens>>
      PROVE  KInv'
  <2>1. KeyMemory(p)'
    BY <1>3, GotoMoves DEF KeyMemory
  <2>2. KeyMemories'
    BY <1>0, <1>3, <2>1, KeyMemoriesKept
  <2> QED
    BY <1>3, <2>2, KeysQuiet
<1>4. ASSUME NEW t \in tokens, Verify(p, t) PROVE KInv'
  BY <1>3, <1>4, Zenon DEF Verify
<1>5. CASE CheckRevoked(p) \/ ReplaceList(p) \/ Crash(p)
  BY <1>3, <1>5 DEF CheckRevoked, ReplaceList, Crash, Done
<1>6. CASE PruneRevoked(p)
  BY <1>3, <1>6 DEF PruneRevoked
<1>7. ASSUME UNCHANGED <<kvars, tokens, pc, run>> PROVE KInv'
  <2>1. KeyMemories'
    BY <1>0, <1>7 DEF KeyMemories, KeyMemory, Initialized, KnownKids, Active, kvars
  <2> QED
    BY <1>7, <2>1, KeysQuiet
<1>8. CASE RevokeTorn(p) \/ \E t \in tokens, bare \in BOOLEAN : Revoke(p, t, bare)
  BY <1>7, <1>8 DEF RevokeTorn, Revoke
<1> QED
  BY <1>1, <1>2, <1>4, <1>5, <1>6, <1>8 DEF Bearer, Revocation

\* Every step keeps it, as long as rotations do not overlap.
LEMMA RanksArePreserved ==
  IInv /\ IInv' /\ KInv /\ OneRotation /\ OneRotation' /\ [Next]_vars => KInv'
<1> SUFFICES ASSUME IInv, IInv', KInv, OneRotation, OneRotation', [Next]_vars PROVE KInv'
  OBVIOUS
<1>1. ASSUME NEW p \in Procs, Rotation(p) \/ Bearer(p) \/ Revocation(p) \/ Crash(p)
      PROVE  KInv'
  BY <1>1, RotationRanks, OthersKeepRanks
<1>2. ASSUME UNCHANGED <<kvars, tokens, pc, run>> PROVE KInv'
  <2>1. KeyMemories'
    BY <1>2 DEF KInv, KeyMemories, KeyMemory, Initialized, KnownKids, Active, kvars
  <2> QED
    BY <1>2, <2>1, KeysQuiet
<1>3. CASE Tick \/ Setback \/ UNCHANGED vars
  BY <1>2, <1>3 DEF Tick, Setback, vars
<1> QED
  BY <1>1, <1>3 DEF Next

\* As long as no two commands rotate at once, an initialized keyring can always mint, and
\* no token is minted with a key older than one that a returned init or rotate-keys had
\* put in force: whatever mints and verifies overlap with the rotation, wherever it
\* dies, and whatever the clock does.
THEOREM KeysInForce == Spec /\ []OneRotation => [](ActiveKeyExists /\ OldKidsNeverMint)
<1>1. Init => IInv /\ KInv
  <2>1. Init => ActiveKeyExists /\ OldKidsNeverMint /\ KeysRanked
    <3> SUFFICES ASSUME Init PROVE ActiveKeyExists /\ OldKidsNeverMint /\ KeysRanked
      OBVIOUS
    <3>1. Active(meta) = {} /\ ~Initialized
      BY DEF Init, Active, KnownKids, Initialized
    <3>2. IsFiniteSet(KeyFiles) /\ Cardinality(KeyFiles) \in Nat
      BY RanksAreTyped, InitEstablishes
    <3> QED
      <4>1. rotated = 0 /\ tokens = {} /\ \A k \in Kids : born[k] = 0
        BY DEF Init
      <4>2. KeysRanked
        BY <3>1, <3>2, <4>1 DEF KeysRanked
      <4> QED
        BY <3>1, <4>1, <4>2 DEF ActiveKeyExists, OldKidsNeverMint
  <2>2. Init => KeyMemories
    BY DEF Init, KeyMemories, KeyMemory
  <2> QED
    BY <2>1, <2>2, InitEstablishes DEF KInv
<1>2. IInv /\ [Next]_vars => IInv'
  BY StepPreserves
<1>3. IInv /\ IInv' /\ KInv /\ OneRotation /\ OneRotation' /\ [Next]_vars => KInv'
  BY RanksArePreserved
<1>4. KInv => ActiveKeyExists /\ OldKidsNeverMint
  BY DEF KInv
<1> QED
  BY <1>1, <1>2, <1>3, <1>4, PTL DEF Spec

-----------------------------------------------------------------------------
(* Revocations.  Any commands may overlap, but for prune-revoked: between  *)
(* its read and its replacement of the list nobody else writes the list,   *)
(* and no verify is about to read it (again: the code has no lock).        *)

PruneAlone == \A p \in Procs : pc[p] = "prune" /\ pc'[p] = "prune" => UNCHANGED rvars
ChecksAside == \A p, q \in Procs : pc[p] = "prune" => pc[q] # "check"

\* The token of a revocation still verifies.
Live(e) == e.exp = None \/ now <= e.exp + SKEW

\* What prune is about to keep, and what a verify that began after the revocation will see.
ListMemory(p) ==
  /\ pc[p] = "prune" => /\ torn = FALSE
                        /\ setbacks = 0 => \A e \in acked : Live(e) => e \in run[p].keep
  /\ pc[p] = "check" /\ run[p].late = TRUE /\ setbacks = 0 =>
       torn = TRUE \/ IsRevoked(run[p].token.jti)

ListMemories == \A p \in Procs : ListMemory(p)

AckedAreOfTokens ==
  \A e \in acked : \E t \in tokens : e.jti = t.jti /\ (e.exp = None \/ e.exp = t.exp)
JtisAreUnique == \A t, u \in tokens : t.jti = u.jti => t = u

ListKept == setbacks = 0 /\ torn = FALSE => \A e \in acked : Live(e) => e \in revoked

RInv == ListKept /\ RevokedNeverAccepted /\ AckedAreOfTokens /\ JtisAreUnique /\ ListMemories

\* The list is kept: the property as the runs state it.
LEMMA KeptIsKept == IInv /\ ListKept => RevocationsKept
BY DEF ListKept, RevocationsKept, Live, IInv, TypeOK

\* A command that neither prunes nor is about to read the list relies on nothing.
LEMMA ListMemoriesKept ==
  ASSUME IInv, ListMemories, NEW p \in Procs, NEW next, NEW memory, Goto(p, next, memory),
         UNCHANGED <<now, rvars, setbacks>>, ListMemory(p)'
  PROVE  ListMemories'
<1>1. ASSUME NEW q \in Procs \ {p} PROVE ListMemory(q)'
  <2>1. pc'[q] = pc[q] /\ run'[q] = run[q]
    BY GotoMoves
  <2>2. UNCHANGED <<now, revoked, torn, acked, setbacks>>
    BY DEF rvars
  <2>3. ListMemory(q)
    BY DEF ListMemories
  <2> QED
    BY <2>1, <2>2, <2>3 DEF ListMemory, IsRevoked, Live
<1> QED
  BY <1>1 DEF ListMemories

\* A step that leaves the list, the tokens and the clock alone keeps the invariant.
LEMMA ListQuiet ==
  ASSUME RInv, UNCHANGED <<now, rvars, tokens, setbacks>>, ListMemories',
         setbacks = 0 => \A a \in accepted' : ~a[2]
  PROVE  RInv'
BY DEF RInv, ListKept, RevokedNeverAccepted, AckedAreOfTokens, JtisAreUnique, Live, rvars

\* A live revocation of a token that is not torn off is on the list.
LEMMA LateIsListed ==
  ASSUME IInv, RInv, NEW t \in tokens, InTime(t), t.jti \in {e.jti : e \in acked},
         setbacks = 0, torn = FALSE
  PROVE  IsRevoked(t.jti)
<1>1. PICK e \in acked : e.jti = t.jti
  OBVIOUS
<1>2. PICK u \in tokens : e.jti = u.jti /\ (e.exp = None \/ e.exp = u.exp)
  BY DEF RInv, AckedAreOfTokens
<1>3. u = t
  BY <1>1, <1>2 DEF RInv, JtisAreUnique
<1>4. Live(e)
  BY <1>2, <1>3 DEF Live, InTime
<1> QED
  BY <1>1, <1>4 DEF RInv, ListKept, IsRevoked

\* A command that goes to a step where it relies on nothing, and writes nothing of the list.
LEMMA ListAside ==
  ASSUME IInv, RInv, NEW p \in Procs, NEW next, NEW memory, Goto(p, next, memory),
         next \notin {"prune", "check"}, UNCHANGED <<now, rvars, tokens, accepted, setbacks>>
  PROVE  RInv'
<1>1. ListMemory(p)'
  BY GotoMoves DEF ListMemory
<1>2. ListMemories'
  BY <1>1, ListMemoriesKept DEF RInv
<1> QED
  BY <1>2, ListQuiet DEF RInv, RevokedNeverAccepted

\* Keys, mints and deaths leave the list alone.
LEMMA KeysKeepList ==
  ASSUME IInv, RInv, NEW p \in Procs, Rotation(p) \/ Mint(p) \/ Crash(p)
  PROVE  RInv'
<1>1. ASSUME NEW next \in {"save", "add"}, GenKey(p, next) PROVE RInv'
  <2>1. PICK memory : Goto(p, next, memory)
    BY <1>1 DEF GenKey
  <2>2. UNCHANGED <<now, rvars, tokens, accepted, setbacks>>
    BY <1>1 DEF GenKey, env
  <2> QED
    BY <2>1, <2>2, ListAside
<1>2. CASE Mint(p)
  <2>1. PICK memory : Goto(p, "issue", memory)
    BY <1>2 DEF Mint
  <2> QED
    BY <1>2, <2>1, ListAside DEF Mint, env
<1>3. CASE InitKeyring(p) \/ AddKey(p) \/ RetireOthers(p)
  BY <1>3, ListAside DEF InitKeyring, AddKey, RetireOthers, env
<1>4. CASE SaveLast(p) \/ Crash(p)
  BY <1>4, ListAside DEF SaveLast, Crash, Done, env
<1> QED
  BY <1>1, <1>2, <1>3, <1>4 DEF Rotation, FirstKey, RotateKeys

\* A new token has a new id: no revocation speaks of it.
LEMMA IssueKeepsList == ASSUME IInv, RInv, NEW p \in Procs, Issue(p) PROVE RInv'
<1>1. PICK jti \in Jtis \ {t.jti : t \in tokens}, ttl \in 1..MAX_TTL :
        tokens' = tokens \cup
          {[jti |-> jti, kid |-> run[p].kid, iat |-> now, exp |-> now + ttl,
            since |-> run[p].since]}
  BY DEF Issue
<1>2. UNCHANGED <<now, rvars, accepted, setbacks>> /\ Goto(p, "idle", NoRun)
  BY DEF Issue, Done, env
<1>3. AckedAreOfTokens' /\ JtisAreUnique'
  BY <1>1, <1>2 DEF RInv, AckedAreOfTokens, JtisAreUnique, rvars
<1>4. ListMemory(p)'
  BY <1>2, GotoMoves DEF ListMemory
<1>5. ListMemories'
  BY <1>2, <1>4, ListMemoriesKept DEF RInv
<1> QED
  BY <1>2, <1>3, <1>5 DEF RInv, ListKept, RevokedNeverAccepted, Live, rvars

\* verify: a token whose revocation had returned is in time only if its entry is listed.
LEMMA VerifyKeepsList ==
  ASSUME IInv, RInv, NEW p \in Procs, NEW t \in tokens, Verify(p, t)
  PROVE  RInv'
<1> DEFINE late == t.jti \in {e.jti : e \in acked}
           memory == [NoRun EXCEPT !.token = t, !.late = late]
<1>1. Goto(p, "check", memory) /\ UNCHANGED <<now, rvars, tokens, accepted, setbacks>>
  BY Zenon DEF Verify, env
<1>2. memory.token = t /\ memory.late = late
  BY DEF NoRun
<1>3. pc'[p] = "check" /\ run'[p] = memory
  <2> HIDE DEF memory
  <2> QED
    BY <1>1, GotoMoves
<1>4. late = TRUE /\ setbacks = 0 => torn = TRUE \/ IsRevoked(t.jti)
  <2>1. torn \in BOOLEAN
    BY DEF IInv, TypeOK
  <2>2. InTime(t)
    BY DEF Verify
  <2> QED
    BY <2>1, <2>2, LateIsListed
<1>5. ListMemory(p)'
  <2> HIDE DEF late, memory
  <2> QED
    BY <1>1, <1>2, <1>3, <1>4 DEF ListMemory, IsRevoked, rvars
<1>6. ListMemories'
  <2> HIDE DEF memory
  <2> QED
    BY <1>1, <1>5, ListMemoriesKept DEF RInv
<1> QED
  BY <1>1, <1>6, ListQuiet DEF RInv, RevokedNeverAccepted

\* ... and the list is read after that: it is torn, or holds the entry.
LEMMA CheckKeepsList == ASSUME IInv, RInv, NEW p \in Procs, CheckRevoked(p) PROVE RInv'
<1> DEFINE jti == run[p].token.jti
<1>1. pc[p] = "check" /\ UNCHANGED <<now, rvars, tokens, setbacks>> /\ Goto(p, "idle", NoRun)
  BY DEF CheckRevoked, Done, env
<1>2. ListMemories'
  <2>1. ListMemory(p)'
    BY <1>1, GotoMoves DEF ListMemory
  <2> QED
    BY <1>1, <2>1, ListMemoriesKept DEF RInv
<1>3. ASSUME setbacks = 0, NEW a \in accepted' PROVE ~a[2]
  <2>1. CASE a \in accepted
    BY <1>3, <2>1 DEF RInv, RevokedNeverAccepted
  <2>2. CASE a \notin accepted
    <3>1. a = <<jti, run[p].late>> /\ ReadableList /\ ~IsRevoked(jti)
      BY <1>3, <2>2 DEF CheckRevoked
    <3>2. torn = FALSE /\ run[p].late \in BOOLEAN
      BY <3>1 DEF ReadableList, IInv, TypeOK
    <3>3. run[p].late # TRUE
      BY <1>1, <1>3, <3>1, <3>2 DEF RInv, ListMemories, ListMemory
    <3> QED
      BY <3>1, <3>2, <3>3
  <2> QED
    BY <2>1, <2>2
<1> QED
  BY <1>1, <1>2, <1>3, ListQuiet

\* revoke, prune-revoked and the death of a revoke in its append.
LEMMA RevocationKeepsList ==
  ASSUME IInv, RInv, PruneAlone, ChecksAside, NEW p \in Procs, Revocation(p)
  PROVE  RInv'
<1>1. ASSUME NEW t \in tokens, NEW bare \in BOOLEAN, Revoke(p, t, bare) PROVE RInv'
  <2>1. /\ acked' = acked \cup {Entry(t, bare)}
        /\ torn = FALSE => revoked' = revoked \cup {Entry(t, bare)}
        /\ revoked \subseteq revoked'
        /\ UNCHANGED <<now, torn, pc, run, tokens, accepted, setbacks>>
    BY <1>1 DEF Revoke, IInv, TypeOK, env
  <2>2. Entry(t, bare).jti = t.jti /\ (Entry(t, bare).exp = None \/ Entry(t, bare).exp = t.exp)
    BY DEF Entry
  <2>3. AckedAreOfTokens'
    BY <2>1, <2>2 DEF RInv, AckedAreOfTokens
  <2>4. ListKept'
    BY <2>1 DEF RInv, ListKept, Live
  <2>5. ASSUME NEW q \in Procs PROVE ListMemory(q)'
    <3>1. ListMemory(q)
      BY DEF RInv, ListMemories
    <3>2. pc[q] = "prune" => acked' = acked
      BY <2>1 DEF PruneAlone, rvars
    <3> QED
      BY <2>1, <3>1, <3>2 DEF ListMemory, IsRevoked, Live
  <2> QED
    BY <2>1, <2>3, <2>4, <2>5 DEF RInv, ListMemories, RevokedNeverAccepted, JtisAreUnique
<1>2. CASE RevokeTorn(p)
  <2>1. torn' = TRUE
        /\ UNCHANGED <<now, revoked, acked, pc, run, tokens, accepted, setbacks>>
    BY <1>2 DEF RevokeTorn
  <2>2. ASSUME NEW q \in Procs PROVE ListMemory(q)'
    <3>1. ListMemory(q)
      BY DEF RInv, ListMemories
    <3>2. pc[q] # "prune"
      BY <2>1, <3>1 DEF PruneAlone, rvars, ListMemory
    <3> QED
      BY <2>1, <3>1, <3>2 DEF ListMemory
  <2> QED
    BY <2>1, <2>2 DEF RInv, ListMemories, ListKept, RevokedNeverAccepted, AckedAreOfTokens,
                      JtisAreUnique
<1>3. CASE PruneRevoked(p)
  <2> DEFINE keep == {e \in revoked : ~Prunable(e)}
             memory == [NoRun EXCEPT !.keep = keep]
  <2>1. Goto(p, "prune", memory) /\ UNCHANGED <<now, rvars, tokens, accepted, setbacks>>
    BY <1>3 DEF PruneRevoked, env
  <2>2. memory.keep = keep
    BY DEF NoRun
  <2>3. torn = FALSE
    BY <1>3 DEF PruneRevoked, ReadableList, IInv, TypeOK
  <2>4. ASSUME setbacks = 0, NEW e \in acked, Live(e) PROVE e \in keep
    <3>1. e \in revoked
      BY <2>3, <2>4 DEF RInv, ListKept
    <3>2. e \in EntryType /\ now \in Nat
      BY DEF IInv, TypeOK
    <3>3. ~Prunable(e)
      BY <2>4, <3>2 DEF Live, Prunable, EntryType, Times
    <3> QED
      BY <3>1, <3>3
  <2> HIDE DEF keep, memory
  <2>5. pc'[p] = "prune" /\ run'[p] = memory
    BY <2>1, GotoMoves
  <2>6. ListMemory(p)'
    BY <2>1, <2>2, <2>3, <2>4, <2>5 DEF ListMemory, Live, rvars
  <2>7. ListMemories'
    BY <2>1, <2>6, ListMemoriesKept DEF RInv
  <2> QED
    BY <2>1, <2>7, ListQuiet DEF RInv, RevokedNeverAccepted
<1>4. CASE ReplaceList(p)
  <2>1. /\ pc[p] = "prune" /\ revoked' = run[p].keep /\ torn' = FALSE
        /\ UNCHANGED <<now, acked, tokens, accepted, setbacks>> /\ Goto(p, "idle", NoRun)
    BY <1>4 DEF ReplaceList, Done, env
  <2>2. ListMemory(p)
    BY DEF RInv, ListMemories
  <2>3. ListKept'
    BY <2>1, <2>2 DEF ListMemory, ListKept, Live
  <2>4. ASSUME NEW q \in Procs PROVE ListMemory(q)'
    <3>1. CASE q = p
      BY <2>1, <3>1, GotoMoves DEF ListMemory
    <3>2. CASE q # p
      <4>1. pc'[q] = pc[q] /\ run'[q] = run[q] /\ ListMemory(q)
        BY <2>1, <3>2, GotoMoves DEF RInv, ListMemories
      <4>2. pc[q] # "check"
        BY <2>1 DEF ChecksAside
      <4> QED
        BY <2>1, <4>1, <4>2 DEF ListMemory, Live
    <3> QED
      BY <3>1, <3>2
  <2> QED
    BY <2>1, <2>3, <2>4 DEF RInv, ListMemories, RevokedNeverAccepted, AckedAreOfTokens,
                            JtisAreUnique
<1> QED
  BY <1>1, <1>2, <1>3, <1>4 DEF Revocation

\* The clock: forwards, fewer revocations are live; set back, nothing is promised.
LEMMA ClockKeepsList == ASSUME IInv, RInv, Tick \/ Setback PROVE RInv'
<1>1. UNCHANGED <<revoked, torn, acked, pc, run, tokens, accepted>>
  BY DEF Tick, Setback, rvars
<1>2. CASE Tick
  <2>1. now \in Nat /\ now' = now + 1 /\ setbacks' = setbacks
    BY <1>2 DEF Tick, IInv, TypeOK, env
  <2>2. ASSUME NEW e \in acked, Live(e)' PROVE Live(e)
    <3>1. e.exp \in Nat \/ e.exp = None
      BY DEF IInv, TypeOK, EntryType, Times
    <3> QED
      BY <2>1, <2>2, <3>1 DEF Live
  <2>3. ListKept' /\ ListMemories'
    BY <1>1, <2>1, <2>2 DEF RInv, ListKept, ListMemories, ListMemory, IsRevoked
  <2> QED
    BY <1>1, <2>1, <2>3 DEF RInv, RevokedNeverAccepted, AckedAreOfTokens, JtisAreUnique
<1>3. CASE Setback
  <2>1. setbacks' # 0
    BY <1>3 DEF Setback, IInv, TypeOK
  <2> QED
    BY <1>1, <2>1 DEF RInv, RevokedNeverAccepted, AckedAreOfTokens, JtisAreUnique, ListKept,
                      ListMemories, ListMemory
<1> QED
  BY <1>2, <1>3

\* Every step keeps it, as long as prune-revoked runs alone.
LEMMA ListIsPreserved ==
  IInv /\ RInv /\ ChecksAside /\ [PruneAlone]_vars /\ [Next]_vars => RInv'
<1> SUFFICES ASSUME IInv, RInv, ChecksAside, [PruneAlone]_vars, [Next]_vars PROVE RInv'
  OBVIOUS
<1>1. CASE UNCHANGED vars
  <2>1. UNCHANGED <<now, revoked, torn, acked, setbacks, tokens, accepted, pc, run>>
    BY <1>1 DEF vars, rvars, env
  <2>2. ListMemories'
    BY <2>1 DEF RInv, ListMemories, ListMemory, IsRevoked, Live
  <2> QED
    BY <2>1, <2>2, ListQuiet DEF rvars, RInv, RevokedNeverAccepted
<1>2. ASSUME PruneAlone, NEW p \in Procs,
             Rotation(p) \/ Bearer(p) \/ Revocation(p) \/ Crash(p)
      PROVE  RInv'
  BY <1>2, KeysKeepList, IssueKeepsList, VerifyKeepsList, CheckKeepsList, RevocationKeepsList
     DEF Bearer
<1>3. CASE Tick \/ Setback
  BY <1>3, ClockKeepsList
<1> QED
  BY <1>1, <1>2, <1>3 DEF Next

\* A revocation that returned holds, for any commands at once of which only prune-revoked
\* runs alone: its entry stays on the list for as long as its token would verify, and no
\* verify that began after it accepts the token; a torn list refuses every token, and only
\* a clock that is set back revives one.
THEOREM RevocationsAreKept ==
  Spec /\ []ChecksAside /\ [][PruneAlone]_vars => []RevocationsHold
<1>1. Init => IInv /\ RInv
  <2>1. Init => RInv
    BY DEF Init, RInv, ListKept, RevokedNeverAccepted, AckedAreOfTokens, JtisAreUnique,
           ListMemories, ListMemory
  <2> QED
    BY <2>1, InitEstablishes
<1>2. IInv /\ [Next]_vars => IInv'
  BY StepPreserves
<1>3. IInv /\ RInv /\ ChecksAside /\ [PruneAlone]_vars /\ [Next]_vars => RInv'
  BY ListIsPreserved
<1>4. IInv /\ RInv => RevocationsHold
  BY KeptIsKept DEF RInv, RevocationsHold
<1> QED
  BY <1>1, <1>2, <1>3, <1>4, PTL DEF Spec

\* The assumptions of the two theorems hold of the code run one command at a time, as the
\* runs do: then nothing overlaps.
THEOREM OneCommandAtATime ==
  ASSUME \A p, q \in Procs : p = q
  PROVE  Spec => []OneRotation /\ []ChecksAside /\ [][PruneAlone]_vars
<1>1. OneRotation /\ ChecksAside
  BY DEF OneRotation, ChecksAside
<1>2. IInv /\ [Next]_vars => [PruneAlone]_vars
  <2> SUFFICES ASSUME IInv, Next, NEW p \in Procs, pc[p] = "prune", pc'[p] = "prune"
               PROVE  UNCHANGED rvars
    BY DEF PruneAlone
  <2>1. ASSUME NEW q \in Procs, Rotation(q) \/ Bearer(q) \/ Revocation(q) \/ Crash(q)
        PROVE  FALSE
    <3>1. q = p
      OBVIOUS
    <3>2. ReplaceList(p) \/ Crash(p)
      BY <2>1, <3>1 DEF Rotation, InitKeyring, FirstKey, RotateKeys, AddKey, RetireOthers, SaveLast,
                        Bearer, Mint, Issue, Verify, CheckRevoked, Revocation, Revoke, RevokeTorn,
                        PruneRevoked
    <3>3. Goto(p, "idle", NoRun)
      BY <3>2 DEF ReplaceList, Crash, Done
    <3> QED
      BY <3>3, GotoMoves
  <2>2. Tick \/ Setback
    BY <2>1 DEF Next
  <2> QED
    BY <2>2 DEF Tick, Setback
<1>3. Init => IInv
  BY InitEstablishes
<1>4. IInv /\ [Next]_vars => IInv'
  BY StepPreserves
<1> QED
  BY <1>1, <1>2, <1>3, <1>4, PTL DEF Spec
=============================================================================
