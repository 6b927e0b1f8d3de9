---------------------------- MODULE FamilyVault ----------------------------
(***************************************************************************)
(* The family data vault: accounts with age tiers and guardians, devices,  *)
(* integrations, the sharing ladder and true deletion (vault/vault.py),    *)
(* the guardian's controls (vault/guardian.py) and the tailnet book-       *)
(* keeping (vault/tailnet.py).                                             *)
(*                                                                         *)
(* Every command loads users.json, checks, changes its copy and writes the *)
(* whole file back; there is no lock, so the commands of two processes     *)
(* interleave between the load and the write unless Serial is TRUE.  A     *)
(* command may die between any two of its writes.  A command whose checks  *)
(* fail raises ValueError before its first write: it is a guard here.      *)
(*                                                                         *)
(* keyring.create_vault and destroy_vault are one step each (Keyring says  *)
(* what happens inside them).  activity.jsonl is written last by every     *)
(* command and read by none of these checks: the event a command commits   *)
(* is kept in run[p].event for the properties.                             *)
(***************************************************************************)
EXTENDS Naturals, FiniteSets

CONSTANTS
  Names,         \* possible account names
  Devices,       \* device names
  Integrations,  \* third-party integrations
  Procs,         \* processes running vault.py
  None,
  Serial,        \* TRUE: one command at a time
  MaxIds,        \* bound on accounts and device registrations ever made
  MaxCrashes     \* bound on commands that die half way

SpecialScopes == {"family", "world"}
Scopes == Names \cup SpecialScopes
Tiers == {"adult", "child"}

ASSUME VaultAssumption ==
  /\ None \notin Names \cup SpecialScopes
  /\ Serial \in BOOLEAN /\ MaxIds \in Nat /\ MaxCrashes \in Nat

VARIABLES
  users,     \* users.json: name -> account record or None
  dirs,      \* dirs[n]: vaults/<n>/ exists
  ring,      \* ring[n]: the keyring's entry and key: "none", "live" or "escrowed"
  tailnet,   \* tailnet.json: <<user, device>> -> [state, reg] or None
  pc, run,   \* per process: the next write, and what the command holds in memory
  ids,       \* identities given out: each account and each registration gets its own
  granted,   \* <<frm, to>>: grants committed and not revoked since
  burnt,     \* names whose key a deletion burned, and no creation has made anew since
  crashes

vars == <<users, dirs, ring, tailnet, pc, run, ids, granted, burnt, crashes>>

NoRun == [doc |-> None, tdoc |-> None, event |-> None]
Event(action, user, arg, by) == [action |-> action, user |-> user, arg |-> arg, by |-> by]

\* A share remembers which account its target was, a device which registration it is:
\* the code stores the names only, and decides by the names only.
Exists(doc, n) == doc[n] # None
IdOf(doc, to) == IF to \in Names /\ Exists(doc, to) THEN doc[to].id ELSE 0
SharedTo(rec) == {s.to : s \in rec.shares}
DeviceNames(rec) == {d.name : d \in rec.devices}

NewAccount(tier, guardian, id) ==
  [tier |-> tier, guardian |-> guardian, id |-> id, devices |-> {},
   integrations |-> {}, shares |-> {}, escrowed |-> (tier = "child")]

Init ==
  /\ users = [n \in Names |-> None]
  /\ dirs = [n \in Names |-> FALSE]
  /\ ring = [n \in Names |-> "none"]
  /\ tailnet = [k \in Names \X Devices |-> None]
  /\ pc = [p \in Procs |-> "idle"]
  /\ run = [p \in Procs |-> NoRun]
  /\ ids = 0
  /\ granted = {} /\ burnt = {}
  /\ crashes = 0

Free(p) == pc[p] = "idle" /\ (Serial => \A q \in Procs : pc[q] = "idle")

\* A command that has passed its checks: next write and memory.
Begin(p, next, doc, event) ==
  /\ pc' = [pc EXCEPT ![p] = next]
  /\ run' = [run EXCEPT ![p] = [NoRun EXCEPT !.doc = doc, !.event = event]]
  /\ UNCHANGED <<users, dirs, ring, tailnet, granted, burnt, crashes>>

FreshId == ids < MaxIds /\ ids' = ids + 1

-----------------------------------------------------------------------------
(* Commands that only rewrite the registry.                                 *)

AddDevice(p, u, d, by) ==
  /\ Free(p)
  /\ Exists(users, u)
  /\ d \notin DeviceNames(users[u])
  /\ users[u].tier = "child" => by = users[u].guardian
  /\ FreshId
  /\ Begin(p, "save",
           [users EXCEPT ![u].devices = @ \cup {[name |-> d, reg |-> ids + 1]}],
           Event("device.added", u, d, IF by = None THEN u ELSE by))

RevokeDevice(p, u, d, by) ==
  LET actor == IF by = None THEN u ELSE by IN
  /\ Free(p)
  /\ Exists(users, u)
  /\ d \in DeviceNames(users[u])
  /\ IF users[u].tier = "child"
     THEN users[u].guardian # None /\ actor = users[u].guardian
     ELSE actor = u
  /\ Begin(p, "save",
           [users EXCEPT ![u].devices = {x \in @ : x.name # d}],
           Event("device.revoked", u, d, actor))
  /\ UNCHANGED ids

AddIntegration(p, u, i) ==
  /\ Free(p)
  /\ Exists(users, u)
  /\ users[u].tier = "adult"
  /\ i \notin users[u].integrations
  /\ Begin(p, "save", [users EXCEPT ![u].integrations = @ \cup {i}],
           Event("integration.added", u, i, u))
  /\ UNCHANGED ids

\* Mutant: a child may share with the world.
MayGrantAny(frm, to) ==
  /\ to # frm
  /\ to \in SpecialScopes \cup {n \in Names : Exists(users, n)}
  /\ to \notin SharedTo(users[frm])
MayGrant(frm, to) ==
  /\ to # frm
  /\ ~(to = "world" /\ users[frm].tier = "child")
  /\ to \in SpecialScopes \cup {n \in Names : Exists(users, n)}
  /\ to \notin SharedTo(users[frm])

GrantShare(p, frm, to, by) ==
  /\ Free(p)
  /\ Exists(users, frm)
  /\ MayGrant(frm, to)
  /\ Begin(p, "save",
           [users EXCEPT ![frm].shares = @ \cup {[to |-> to, id |-> IdOf(users, to)]}],
           Event("share.granted", frm, to, IF by = None THEN frm ELSE by))
  /\ UNCHANGED ids

\* Mutant: every share of the account goes.
WithoutShares(doc, frm, to) == [doc EXCEPT ![frm].shares = {}]

WithoutShare(doc, frm, to) ==
  [doc EXCEPT ![frm].shares = {s \in @ : s.to # to}]

RevokeShare(p, frm, to, by) ==
  /\ Free(p)
  /\ Exists(users, frm)
  /\ to \in SharedTo(users[frm])
  /\ Begin(p, "save", WithoutShare(users, frm, to),
           Event("share.revoked", frm, to, IF by = None THEN frm ELSE by))
  /\ UNCHANGED ids

GuardianRevokeShare(p, child, to, guardian) ==
  /\ Free(p)
  /\ Exists(users, child)
  /\ users[child].tier = "child"
  /\ users[child].guardian # None /\ guardian = users[child].guardian
  /\ to \in SharedTo(users[child])
  /\ Begin(p, "save", WithoutShare(users, child, to),
           Event("share.revoked", child, to, guardian))
  /\ UNCHANGED ids

Graduate(p, child, by) ==
  /\ Free(p)
  /\ Exists(users, child)
  /\ users[child].tier = "child"
  /\ users[child].guardian # None /\ by = users[child].guardian
  /\ Begin(p, "save",
           [users EXCEPT ![child].tier = "adult", ![child].guardian = None],
           Event("user.graduated", child, None, by))
  /\ UNCHANGED ids

-----------------------------------------------------------------------------
(* create-user: vault directory, key, registry.                             *)

CreateUser(p, n, tier, guardian) ==
  /\ Free(p)
  /\ ~Exists(users, n)
  /\ tier = "child" =>
        guardian # None /\ Exists(users, guardian) /\ users[guardian].tier = "adult"
  /\ FreshId
  /\ Begin(p, "mkdir",
           [users EXCEPT ![n] =
              NewAccount(tier, IF tier = "child" THEN guardian ELSE None, ids + 1)],
           Event("user.created", n, None, n))

Step(p, next) ==
  /\ pc' = [pc EXCEPT ![p] = next]
  /\ run' = IF next = "idle" THEN [run EXCEPT ![p] = NoRun] ELSE run

\* makedirs(exist_ok=False): a directory left by anybody ends the command.
MakeVaultDir(p) ==
  LET n == run[p].event.user IN
  /\ pc[p] = "mkdir"
  /\ IF dirs[n] THEN Step(p, "idle") /\ UNCHANGED dirs
                ELSE Step(p, "mkkey") /\ dirs' = [dirs EXCEPT ![n] = TRUE]
  /\ UNCHANGED <<users, ring, tailnet, ids, granted, burnt, crashes>>

\* Mutant: no escrow, whatever the tier.
KeyWithoutEscrow(rec) == "live"
KeyFor(rec) == IF rec.escrowed THEN "escrowed" ELSE "live"

\* Mutant: users.json is written before the key is made.
SaveBeforeKey(p) ==
  LET n == run[p].event.user IN
  /\ pc[p] = "mkkey"
  /\ users' = run[p].doc
  /\ Step(p, "idle")
  /\ UNCHANGED <<dirs, ring, tailnet, ids, granted, burnt, crashes>>

\* keyring.create_vault refuses a name it already knows.
CreateKey(p) ==
  LET n == run[p].event.user IN
  /\ pc[p] = "mkkey"
  /\ IF ring[n] # "none" THEN Step(p, "idle") /\ UNCHANGED <<ring, burnt>>
     ELSE /\ Step(p, "save")
          /\ ring' = [ring EXCEPT ![n] = KeyFor(run[p].doc[n])]
          /\ burnt' = burnt \ {n}
  /\ UNCHANGED <<users, dirs, tailnet, ids, granted, crashes>>

-----------------------------------------------------------------------------
(* delete-user: burn the key, wipe the directory, drop the record.          *)

\* Mutant: the files go before the key.
DeleteFilesFirst(p, n) ==
  /\ Free(p)
  /\ Exists(users, n)
  /\ Begin(p, "wipe", [users EXCEPT ![n] = None], Event("user.deleted", n, None, n))
  /\ UNCHANGED ids

DeleteUser(p, n) ==
  /\ Free(p)
  /\ Exists(users, n)
  /\ Begin(p, "burn", [users EXCEPT ![n] = None], Event("user.deleted", n, None, n))
  /\ UNCHANGED ids

\* keyring.destroy_vault refuses a name it does not know.
BurnKey(p) ==
  LET n == run[p].event.user IN
  /\ pc[p] = "burn"
  /\ IF ring[n] = "none" THEN Step(p, "idle") /\ UNCHANGED <<ring, burnt>>
     ELSE /\ Step(p, "wipe")
          /\ ring' = [ring EXCEPT ![n] = "none"]
          /\ burnt' = burnt \cup {n}
  /\ UNCHANGED <<users, dirs, tailnet, ids, granted, crashes>>

\* Mutant: the directory stays.
WipeNothing(p) ==
  /\ pc[p] = "wipe"
  /\ Step(p, "save")
  /\ UNCHANGED <<users, dirs, ring, tailnet, ids, granted, burnt, crashes>>

WipeVaultDir(p) ==
  /\ pc[p] = "wipe"
  /\ Step(p, "save")
  /\ dirs' = [dirs EXCEPT ![run[p].event.user] = FALSE]
  /\ UNCHANGED <<users, ring, tailnet, ids, granted, burnt, crashes>>

\* users.json is replaced as a whole by the command's copy.
GrantedAfter(event) ==
  CASE event.action = "share.granted" -> granted \cup {<<event.user, event.arg>>}
    [] event.action = "share.revoked" -> granted \ {<<event.user, event.arg>>}
    [] event.action \in {"user.created", "user.deleted"} ->
         {g \in granted : g[1] # event.user}
    [] OTHER -> granted

SaveUsers(p) ==
  /\ pc[p] = "save"
  /\ users' = run[p].doc
  /\ granted' = GrantedAfter(run[p].event)
  /\ Step(p, "idle")
  /\ UNCHANGED <<dirs, ring, tailnet, ids, burnt, crashes>>

-----------------------------------------------------------------------------
(* The tailnet records, keyed by the names of a user and a device.          *)

Registration(u, d) == CHOOSE x \in users[u].devices : x.name = d

BeginTailnet(p, tdoc, event) ==
  /\ pc' = [pc EXCEPT ![p] = "tsave"]
  /\ run' = [run EXCEPT ![p] = [NoRun EXCEPT !.tdoc = tdoc, !.event = event]]
  /\ UNCHANGED <<users, dirs, ring, tailnet, ids, granted, burnt, crashes>>

Onboard(p, u, d) ==
  /\ Free(p)
  /\ Exists(users, u)
  /\ d \in DeviceNames(users[u])
  /\ tailnet[<<u, d>>] = None
  /\ BeginTailnet(p, [tailnet EXCEPT ![<<u, d>>] =
                        [state |-> "pending", reg |-> Registration(u, d).reg]],
                  Event("tailnet.onboarded", u, d, u))

Claim(p, u, d) ==
  /\ Free(p)
  /\ Exists(users, u)
  /\ d \in DeviceNames(users[u])
  /\ tailnet[<<u, d>>] # None
  /\ tailnet[<<u, d>>].state # "active"
  /\ BeginTailnet(p, [tailnet EXCEPT ![<<u, d>>] =
                        [state |-> "active", reg |-> Registration(u, d).reg]],
                  Event("tailnet.claimed", u, d, u))

Drop(p, u, d) ==
  /\ Free(p)
  /\ Exists(users, u)
  /\ tailnet[<<u, d>>] # None
  /\ BeginTailnet(p, [tailnet EXCEPT ![<<u, d>>] = None],
                  Event("tailnet.dropped", u, d, u))

SaveTailnet(p) ==
  /\ pc[p] = "tsave"
  /\ tailnet' = run[p].tdoc
  /\ Step(p, "idle")
  /\ UNCHANGED <<users, dirs, ring, ids, granted, burnt, crashes>>

-----------------------------------------------------------------------------
\* vault.verify: what the consistency check reports.
HasAdultGuardian(rec) ==
  rec.guardian \in Names /\ Exists(users, rec.guardian) /\ users[rec.guardian].tier = "adult"

RecordProblems(n) ==
  LET rec == users[n]
      found(condition, kind) == IF condition THEN {<<kind, n>>} ELSE {}
  IN  UNION {found(rec.tier = "child" /\ ~HasAdultGuardian(rec), "no adult guardian"),
             found(rec.tier = "child" /\ ~rec.escrowed, "not escrowed"),
             found(~dirs[n], "missing directory"),
             found(ring[n] = "none", "no key"),
             found(\E to \in SharedTo(rec) \ SpecialScopes : ~Exists(users, to),
                   "share to unknown target")}

Problems ==
  UNION {RecordProblems(n) : n \in {m \in Names : Exists(users, m)}}
  \cup {<<"orphan key", n>> : n \in {m \in Names : ring[m] # "none" /\ ~Exists(users, m)}}

-----------------------------------------------------------------------------
Crash(p) ==
  /\ pc[p] # "idle"
  /\ crashes < MaxCrashes
  /\ crashes' = crashes + 1
  /\ Step(p, "idle")
  /\ UNCHANGED <<users, dirs, ring, tailnet, ids, granted, burnt>>

Accounts(p) ==
  \E n \in Names :
    \/ \E tier \in Tiers, g \in Names \cup {None} : CreateUser(p, n, tier, g)
    \/ \E by \in Names \cup {None}, d \in Devices :
          AddDevice(p, n, d, by) \/ RevokeDevice(p, n, d, by)
    \/ \E i \in Integrations : AddIntegration(p, n, i)
    \/ \E by \in Names : Graduate(p, n, by)
    \/ DeleteUser(p, n)

Sharing(p) ==
  \E n \in Names, to \in Scopes :
    \/ \E by \in Names \cup {None} : GrantShare(p, n, to, by) \/ RevokeShare(p, n, to, by)
    \/ \E by \in Names : GuardianRevokeShare(p, n, to, by)

Tailnet(p) ==
  \E u \in Names, d \in Devices : Onboard(p, u, d) \/ Claim(p, u, d) \/ Drop(p, u, d)

Writes(p) ==
  \/ MakeVaultDir(p) \/ CreateKey(p) \/ BurnKey(p) \/ WipeVaultDir(p)
  \/ SaveUsers(p) \/ SaveTailnet(p)

Next == \E p \in Procs : Accounts(p) \/ Sharing(p) \/ Tailnet(p) \/ Writes(p) \/ Crash(p)

Spec == Init /\ [][Next]_vars

-----------------------------------------------------------------------------
(* Properties                                                               *)

Share == [to : Scopes, id : 0..MaxIds]
Device == [name : Devices, reg : 1..MaxIds]
Account ==
  [tier : Tiers, guardian : Names \cup {None}, id : 1..MaxIds,
   devices : SUBSET Device, integrations : SUBSET Integrations,
   shares : SUBSET Share, escrowed : BOOLEAN]
ASSUME NoneAssumption == None \notin Account
Registry == [Names -> Account \cup {None}]
TailnetDoc ==
  [Names \X Devices -> [state : {"pending", "active"}, reg : 1..MaxIds] \cup {None}]
Actions ==
  {"user.created", "user.deleted", "user.graduated", "device.added", "device.revoked",
   "integration.added", "share.granted", "share.revoked",
   "tailnet.onboarded", "tailnet.claimed", "tailnet.dropped"}
EventType ==
  [action : Actions, user : Names,
   arg : Scopes \cup Devices \cup Integrations \cup {None}, by : Names \cup {None}]

\* Type invariant of the registry, the key state, the tailnet records and the memory of
\* every running command.
TypeOK ==
  /\ users \in Registry
  /\ dirs \in [Names -> BOOLEAN]
  /\ ring \in [Names -> {"none", "live", "escrowed"}]
  /\ tailnet \in TailnetDoc
  /\ pc \in [Procs -> {"idle", "mkdir", "mkkey", "burn", "wipe", "save", "tsave"}]
  /\ run \in [Procs -> [doc : Registry \cup {None}, tdoc : TailnetDoc \cup {None},
                        event : EventType \cup {None}]]
  /\ ids \in 0..MaxIds
  /\ granted \subseteq Names \X Scopes /\ burnt \subseteq Names
  /\ crashes \in 0..MaxCrashes

\* The restricted surface of an under-18 account: no share to the world and no
\* integration, however commands race, die, delete, recreate and graduate accounts.
RestrictedChild(rec) ==
  rec.tier = "child" => "world" \notin SharedTo(rec) /\ rec.integrations = {}
ChildSurface == \A n \in Names : Exists(users, n) => RestrictedChild(users[n])

\* A registered account has its key, with the escrow its record promises: an account is
\* registered after its key is made, nothing but its own deletion burns it, a child's key is
\* always escrowed and graduating keeps the copy.
KeyPromised(n) == IF users[n].escrowed THEN "escrowed" ELSE "live"
EscrowAsPromised ==
  \A n \in Names : Exists(users, n) => ring[n] = IF n \in burnt THEN "none" ELSE KeyPromised(n)

\* With one command at a time the stored shares are exactly the grants that were
\* committed and not revoked, deleted or lost since.
SharesAreCurrent ==
  \A n \in Names : Exists(users, n) =>
     SharedTo(users[n]) = {g[2] : g \in {x \in granted : x[1] = n}}

\* Without a crash, and between commands, an account and its directory exist together or
\* not at all, and vault.verify reports nothing but references to deleted accounts.
AccountsAreWhole ==
  (crashes = 0 /\ \A p \in Procs : pc[p] = "idle") =>
     /\ \A n \in Names : Exists(users, n) <=> dirs[n]
     /\ \A x \in Problems : x[1] \in {"no adult guardian", "share to unknown target"}

\* Deletion destroys the key before the files: a registered account whose directory is
\* gone has no key left either, at every step and after every crash.
KeyDiesFirst ==
  \A n \in Names : (Exists(users, n) /\ ~dirs[n]) => ring[n] = "none"

\* A registered account has the key its record promises unless a deletion of it has begun and
\* burned it, and the key goes before the files: at every step of a creation and of a
\* deletion, and after every crash (create_user, delete_user, graduate).
KeysAsPromised == EscrowAsPromised /\ KeyDiesFirst
=============================================================================
