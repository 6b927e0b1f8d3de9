------------------------------- MODULE Tokens -------------------------------
(***************************************************************************)
(* The token authority (tokens/tokens.py): a keyring whose newest key      *)
(* mints and whose old keys only verify, expiry with a clock leeway, and a *)
(* blacklist of revoked token ids that can be pruned.                      *)
(*                                                                         *)
(* Commands are processes that share keys.json and revoked.jsonl without a *)
(* lock; with one process they run one after the other.  A step is what    *)
(* happens between two accesses to a shared file or to the clock.          *)
(*                                                                         *)
(* Encryption and MAC are the identity of a token: a token is a record     *)
(* that only Issue makes, so tampering is the refusal of a record nobody   *)
(* made and has no action; a token is verified for its own audience.       *)
(***************************************************************************)
EXTENDS Naturals, FiniteSets

CONSTANTS
  Kids,        \* key ids, drawn at random: numbers, because equal dates are sorted by id
  Jtis,        \* token ids
  Procs, None,
  SKEW, MAX_TTL,
  MAX_REVOKED, \* revocations a readable list may hold (MAX_REVOKED_BYTES)
  MaxTime, MaxCrashes, MaxSetbacks   \* bounds

ASSUME TokensAssumption ==
  /\ Kids \subseteq Nat \ {0} /\ IsFiniteSet(Kids)
  /\ None \notin Nat \cup Jtis \cup [created : Nat, status : {"active", "retired"}]
  /\ SKEW \in Nat /\ MAX_TTL \in Nat \ {0} /\ MAX_REVOKED \in Nat
  /\ MaxTime \in Nat /\ MaxCrashes \in Nat /\ MaxSetbacks \in Nat

VARIABLES
  now,        \* the clock of the machine
  born,       \* born[k]: 0, or k's rank among the keys/<kid>.key files written
  meta,       \* keys.json: kid -> [created, status] or None; all None: no such file
  revoked,    \* revoked.jsonl: the set of its [jti, exp] records
  torn,       \* revoked.jsonl holds a line that does not parse
  pc, run,    \* per process: next step and memory
  tokens,     \* every token minted; since: the key in force when its mint began
  rotated,    \* rank of the newest key whose init or rotate-keys has returned
  acked,      \* revocations whose revoke has returned
  accepted,   \* <<jti, late>>: verified; late: its revoke had returned before verify began
  crashes, setbacks

kvars == <<born, meta, rotated>>
rvars == <<revoked, torn, acked>>
env == <<crashes, setbacks>>
vars == <<now, kvars, rvars, pc, run, tokens, accepted, env>>

NoRun == [kid |-> 0, doc |-> None, since |-> 0, token |-> None, late |-> FALSE, keep |-> {}]
KnownKids(doc) == {k \in Kids : doc[k] # None}
Active(doc) == {k \in KnownKids(doc) : doc[k].status = "active"}
Initialized == KnownKids(meta) # {}
KeyFiles == {k \in Kids : born[k] > 0}

Init ==
  /\ now = 0
  /\ born = [k \in Kids |-> 0]
  /\ meta = [k \in Kids |-> None]
  /\ rotated = 0
  /\ revoked = {} /\ torn = FALSE /\ acked = {}
  /\ pc = [p \in Procs |-> "idle"]
  /\ run = [p \in Procs |-> NoRun]
  /\ tokens = {} /\ accepted = {}
  /\ crashes = 0 /\ setbacks = 0

Goto(p, next, memory) ==
  /\ pc' = [pc EXCEPT ![p] = next]
  /\ run' = [run EXCEPT ![p] = memory]
Done(p) == Goto(p, "idle", NoRun)

-----------------------------------------------------------------------------
(* init and rotate-keys                                                     *)

\* init looks for keys.json, and _gen_key looks again.
InitKeyring(p) ==
  /\ pc[p] = "idle"
  /\ ~Initialized
  /\ Goto(p, "init", NoRun)
  /\ UNCHANGED <<now, kvars, rvars, tokens, accepted, env>>

\* Mutant: the entry is made before the key file.
GenEntry(p, next) ==
  \E k \in Kids \ (KnownKids(meta) \cup KeyFiles) :
    /\ Goto(p, next,
            [NoRun EXCEPT !.kid = k,
               !.doc = [meta EXCEPT ![k] = [created |-> now, status |-> "active"]]])
    /\ UNCHANGED <<now, kvars, rvars, tokens, accepted, env>>

\* _gen_key: load keys.json, draw an unused id, write the key file, date the entry.
GenKey(p, next) ==
  \E k \in Kids \ (KnownKids(meta) \cup KeyFiles) :
    /\ born' = [born EXCEPT ![k] = Cardinality(KeyFiles) + 1]
    /\ Goto(p, next,
            [NoRun EXCEPT !.kid = k,
               !.doc = [meta EXCEPT ![k] = [created |-> now, status |-> "active"]]])
    /\ UNCHANGED <<now, meta, rotated, rvars, tokens, accepted, env>>

FirstKey(p) == pc[p] = "init" /\ GenKey(p, "save")
RotateKeys(p) == pc[p] = "idle" /\ Initialized /\ GenKey(p, "add")

\* The last save of init or rotate-keys: the new key is in force.
SaveLast(p) ==
  /\ pc[p] = "save"
  /\ meta' = run[p].doc
  /\ rotated' = IF born[run[p].kid] > rotated THEN born[run[p].kid] ELSE rotated
  /\ Done(p)
  /\ UNCHANGED <<now, born, rvars, tokens, accepted, env>>

AddKey(p) ==
  /\ pc[p] = "add"
  /\ meta' = run[p].doc
  /\ Goto(p, "retire", run[p])
  /\ UNCHANGED <<now, born, rotated, rvars, tokens, accepted, env>>

\* Mutant: the new key retires too.
RetiredAll(doc, kid) ==
  [k \in Kids |-> IF doc[k] = None THEN None ELSE [doc[k] EXCEPT !.status = "retired"]]

Retired(doc, kid) ==
  [k \in Kids |-> IF k = kid \/ doc[k] = None THEN doc[k]
                  ELSE [doc[k] EXCEPT !.status = "retired"]]

RetireOthers(p) ==
  /\ pc[p] = "retire"
  /\ Goto(p, "save", [run[p] EXCEPT !.doc = Retired(meta, run[p].kid)])
  /\ UNCHANGED <<now, kvars, rvars, tokens, accepted, env>>

-----------------------------------------------------------------------------
(* mint and verify                                                          *)

\* actives are sorted by creation second; keys.json lists equal ones by id.
Older(j, k) ==
  meta[j].created < meta[k].created \/ (meta[j].created = meta[k].created /\ j < k)
\* Mutant: the status is not looked at.
IsLatestKid(k) == k \in KnownKids(meta) /\ \A j \in KnownKids(meta) \ {k} : Older(j, k)

IsActiveKid(k) == k \in Active(meta) /\ \A j \in Active(meta) \ {k} : Older(j, k)

Mint(p) ==
  /\ pc[p] = "idle"
  /\ \E k \in Kids :
       /\ IsActiveKid(k)
       /\ k \in KeyFiles
       /\ Goto(p, "issue", [NoRun EXCEPT !.kid = k, !.since = rotated])
  /\ UNCHANGED <<now, kvars, rvars, tokens, accepted, env>>

Issue(p) ==
  /\ pc[p] = "issue"
  /\ \E jti \in Jtis \ {t.jti : t \in tokens}, ttl \in 1..MAX_TTL :
       tokens' = tokens \cup
         {[jti |-> jti, kid |-> run[p].kid, iat |-> now, exp |-> now + ttl,
           since |-> run[p].since]}
  /\ Done(p)
  /\ UNCHANGED <<now, kvars, rvars, accepted, env>>

InTime(t) == now <= t.exp + SKEW /\ t.iat <= now + SKEW

\* Key file, MAC, decryption, then the claims; the blacklist is read after that.
Verify(p, t) ==
  /\ pc[p] = "idle"
  /\ t.kid \in KeyFiles
  /\ InTime(t)
  /\ Goto(p, "check", [NoRun EXCEPT !.token = t,
                                    !.late = (t.jti \in {e.jti : e \in acked})])
  /\ UNCHANGED <<now, kvars, rvars, tokens, accepted, env>>

TooLarge == Cardinality(revoked) > MAX_REVOKED
ReadableList == ~torn /\ ~TooLarge
\* Mutant: only records with an expiry count.
IsRevokedWithExp(jti) == \E e \in revoked : e.jti = jti /\ e.exp # None

IsRevoked(jti) == \E e \in revoked : e.jti = jti

CheckRevoked(p) ==
  LET jti == run[p].token.jti IN
  /\ pc[p] = "check"
  /\ accepted' = IF ReadableList /\ ~IsRevoked(jti)
                 THEN accepted \cup {<<jti, run[p].late>>} ELSE accepted
  /\ Done(p)
  /\ UNCHANGED <<now, kvars, rvars, tokens, env>>

-----------------------------------------------------------------------------
(* revoke and prune-revoked                                                 *)

\* A bare jti carries no expiry.  A line appended behind a torn one joins it.
Entry(t, bare) == [jti |-> t.jti, exp |-> IF bare THEN None ELSE t.exp]

Revoke(p, t, bare) ==
  /\ pc[p] = "idle"
  /\ acked' = acked \cup {Entry(t, bare)}
  /\ revoked' = IF torn THEN revoked ELSE revoked \cup {Entry(t, bare)}
  /\ UNCHANGED <<now, kvars, torn, pc, run, tokens, accepted, env>>

RevokeTorn(p) ==
  /\ pc[p] = "idle" /\ crashes < MaxCrashes
  /\ torn' = TRUE
  /\ crashes' = crashes + 1
  /\ UNCHANGED <<now, kvars, revoked, acked, pc, run, tokens, accepted, setbacks>>

\* Mutant: the leeway is forgotten.
PrunableAtExp(e) == e.exp # None /\ e.exp < now

Prunable(e) == e.exp # None /\ e.exp + SKEW < now

PruneRevoked(p) ==
  /\ pc[p] = "idle"
  /\ ReadableList
  /\ \E e \in revoked : Prunable(e)
  /\ Goto(p, "prune", [NoRun EXCEPT !.keep = {e \in revoked : ~Prunable(e)}])
  /\ UNCHANGED <<now, kvars, rvars, tokens, accepted, env>>

ReplaceList(p) ==
  /\ pc[p] = "prune"
  /\ revoked' = run[p].keep
  /\ torn' = FALSE
  /\ Done(p)
  /\ UNCHANGED <<now, kvars, acked, tokens, accepted, env>>

-----------------------------------------------------------------------------
Tick ==
  /\ now < MaxTime
  /\ now' = now + 1
  /\ UNCHANGED <<kvars, rvars, pc, run, tokens, accepted, env>>

\* The clock is set back.
Setback ==
  /\ setbacks < MaxSetbacks
  /\ now > 0
  /\ now' \in 0..(now - 1)
  /\ setbacks' = setbacks + 1
  /\ UNCHANGED <<kvars, rvars, pc, run, tokens, accepted, crashes>>

Crash(p) ==
  /\ pc[p] # "idle" /\ crashes < MaxCrashes
  /\ Done(p)
  /\ crashes' = crashes + 1
  /\ UNCHANGED <<now, kvars, rvars, tokens, accepted, setbacks>>

Rotation(p) ==
  InitKeyring(p) \/ FirstKey(p) \/ RotateKeys(p) \/ AddKey(p) \/ RetireOthers(p) \/ SaveLast(p)
Bearer(p) == Mint(p) \/ Issue(p) \/ (\E t \in tokens : Verify(p, t)) \/ CheckRevoked(p)
Revocation(p) ==
  \/ \E t \in tokens, bare \in BOOLEAN : Revoke(p, t, bare)
  \/ RevokeTorn(p)
  \/ PruneRevoked(p) \/ ReplaceList(p)

Next ==
  \/ \E p \in Procs : Rotation(p) \/ Bearer(p) \/ Revocation(p) \/ Crash(p)
  \/ Tick \/ Setback

Spec == Init /\ [][Next]_vars

-----------------------------------------------------------------------------
(* Properties                                                               *)

Times == 0..(MaxTime + MAX_TTL)
Ranks == 0..Cardinality(Kids)
KeyDoc == [Kids -> [created : Times, status : {"active", "retired"}] \cup {None}]
TokenType == [jti : Jtis, kid : Kids, iat : Times, exp : Times, since : Ranks]
EntryType == [jti : Jtis, exp : Times \cup {None}]

\* Type invariant of the clock, the two files, the tokens handed out and the memory of
\* every running command.
TypeOK ==
  /\ now \in 0..MaxTime
  /\ born \in [Kids -> Ranks]
  /\ meta \in KeyDoc
  /\ rotated \in Ranks
  /\ revoked \subseteq EntryType /\ acked \subseteq EntryType
  /\ torn \in BOOLEAN
  /\ pc \in [Procs -> {"idle", "init", "save", "add", "retire", "issue", "check", "prune"}]
  /\ run \in [Procs -> [kid : Kids \cup {0}, doc : KeyDoc \cup {None}, since : Ranks,
                        token : TokenType \cup {None}, late : BOOLEAN,
                        keep : SUBSET EntryType]]
  /\ tokens \subseteq TokenType
  /\ accepted \subseteq Jtis \X BOOLEAN
  /\ crashes \in 0..MaxCrashes /\ setbacks \in 0..MaxSetbacks

\* "Old kids verify": the key of every token ever minted, and of every entry of
\* keys.json, is on disk, however rotations race and die (_gen_key writes the key file
\* before the entry, and nothing deletes a key file).
MintedKeysExist ==
  /\ \A t \in tokens : t.kid \in KeyFiles
  /\ KnownKids(meta) \subseteq KeyFiles

\* With one command at a time an initialized keyring can always mint, also after a crash
\* between the two saves of rotate-keys.
ActiveKeyExists == Initialized => Active(meta) # {}

\* "but never mint": once the init or rotate-keys that made a key has returned, no key
\* made before it mints, also after a later rotation died half way and whatever the clock
\* did (rotate_keys retires every other key before it returns).
OldKidsNeverMint == \A t \in tokens : born[t.kid] >= t.since

\* A revocation that returned stays on the list for as long as its token would verify,
\* and a bare one for ever: prune drops an entry only past the same boundary
\* (exp + SKEW) at which verify stops accepting.  A torn list refuses every token; a
\* clock that is set back revives tokens whose revocation is pruned.
RevocationsKept ==
  (torn \/ setbacks > 0) \/ \A e \in acked : (e.exp = None \/ now <= e.exp + SKEW) => e \in revoked

\* Unless the clock is set back, a token whose revocation returned before verify began is
\* never accepted.
RevokedNeverAccepted == setbacks = 0 => \A a \in accepted : ~a[2]

\* A revocation that returned holds: it stays on the list while its token would verify, and
\* no token is accepted against it (revoke, prune_revoked, verify).
RevocationsHold == RevocationsKept /\ RevokedNeverAccepted
=============================================================================
