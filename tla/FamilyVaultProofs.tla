------------------------- MODULE FamilyVaultProofs -------------------------
(***************************************************************************)
(* Proofs about FamilyVault, for any accounts and devices, any number of   *)
(* processes that overwrite each other's users.json, and any crashes.  The *)
(* main theorem: an under-18 account never has a share to the world nor an *)
(* integration.                                                            *)
(***************************************************************************)
EXTENDS FamilyVault, TLAPS

USE VaultAssumption

(* The strengthening.  Every copy of the registry that a command holds in   *)
(* memory is a registry that could be stored: it was read from a restricted *)
(* registry and edited by a command that keeps it so.  Whichever copy wins  *)
(* a race is therefore a restricted one.                                    *)

Restricted(doc) == \A n \in Names : Exists(doc, n) => RestrictedChild(doc[n])
StorableDoc(doc) == doc \in Registry /\ Restricted(doc)
NamesAScope(event) == event.action = "share.granted" => event.arg \in Scopes

Writing == {"mkdir", "mkkey", "burn", "wipe", "save"}
MemoryIsStorable ==
  \A p \in Procs :
    /\ pc[p] \in Writing => /\ StorableDoc(run[p].doc)
                            /\ run[p].event \in EventType
                            /\ NamesAScope(run[p].event)
    /\ pc[p] = "tsave" => run[p].tdoc \in TailnetDoc

IInv == TypeOK /\ ChildSurface /\ MemoryIsStorable

\* The invariant holds of the empty vault.
LEMMA InitEstablishes == Init => IInv
<1> SUFFICES ASSUME Init PROVE IInv
  OBVIOUS
<1>1. TypeOK
  BY DEF Init, TypeOK, Registry, TailnetDoc, NoRun
<1>2. ChildSurface
  BY DEF Init, ChildSurface, Exists
<1>3. MemoryIsStorable
  BY DEF Init, MemoryIsStorable, Writing
<1> QED
  BY <1>1, <1>2, <1>3 DEF IInv

\* A command that has passed its checks with a storable copy keeps the invariant.
LEMMA BeginKeeps ==
  ASSUME IInv, NEW p \in Procs, NEW next \in {"mkdir", "burn", "save"},
         NEW STATE doc, StorableDoc(doc),
         NEW STATE event, event \in EventType, NamesAScope(event),
         Begin(p, next, doc, event), ids' \in 0..MaxIds
  PROVE  IInv'
<1> DEFINE memory == [NoRun EXCEPT !.doc = doc, !.event = event]
<1>1. /\ pc' = [pc EXCEPT ![p] = next]
      /\ run' = [run EXCEPT ![p] = memory]
      /\ UNCHANGED <<users, dirs, ring, tailnet, granted, burnt, crashes>>
  BY DEF Begin
<1>2. memory \in [doc : Registry \cup {None}, tdoc : TailnetDoc \cup {None},
                  event : EventType \cup {None}]
  BY DEF StorableDoc, NoRun
<1>3. memory.doc = doc /\ memory.event = event
  BY DEF NoRun
<1> HIDE DEF memory
<1>4. TypeOK'
  BY <1>1, <1>2 DEF IInv, TypeOK
<1>5. ChildSurface'
  BY <1>1 DEF IInv, ChildSurface, Exists
<1>6. MemoryIsStorable'
  BY <1>1, <1>3 DEF IInv, TypeOK, MemoryIsStorable
<1> QED
  BY <1>4, <1>5, <1>6 DEF IInv

\* So does a tailnet command.
LEMMA BeginTailnetKeeps ==
  ASSUME IInv, NEW p \in Procs,
         NEW STATE tdoc, tdoc \in TailnetDoc, NEW STATE event, event \in EventType,
         BeginTailnet(p, tdoc, event)
  PROVE  IInv'
<1> DEFINE memory == [NoRun EXCEPT !.tdoc = tdoc, !.event = event]
<1>1. /\ pc' = [pc EXCEPT ![p] = "tsave"]
      /\ run' = [run EXCEPT ![p] = memory]
      /\ UNCHANGED <<users, dirs, ring, tailnet, ids, granted, burnt, crashes>>
  BY DEF BeginTailnet
<1>2. memory \in [doc : Registry \cup {None}, tdoc : TailnetDoc \cup {None},
                  event : EventType \cup {None}]
  BY DEF NoRun
<1>3. memory.tdoc = tdoc
  BY DEF NoRun
<1> HIDE DEF memory
<1>4. TypeOK'
  BY <1>1, <1>2 DEF IInv, TypeOK
<1>5. ChildSurface'
  BY <1>1 DEF IInv, ChildSurface, Exists
<1>6. MemoryIsStorable'
  BY <1>1, <1>3 DEF IInv, TypeOK, MemoryIsStorable, Writing
<1> QED
  BY <1>4, <1>5, <1>6 DEF IInv

\* A further write of a running command keeps the memory storable.
LEMMA StepKeeps ==
  ASSUME IInv, NEW p \in Procs, NEW next \in {"idle", "mkkey", "wipe", "save"},
         pc[p] \in Writing \/ next = "idle", Step(p, next)
  PROVE  /\ pc' \in [Procs -> {"idle", "mkdir", "mkkey", "burn", "wipe", "save", "tsave"}]
         /\ run' \in [Procs -> [doc : Registry \cup {None}, tdoc : TailnetDoc \cup {None},
                                event : EventType \cup {None}]]
         /\ MemoryIsStorable'
<1>1. NoRun \in [doc : Registry \cup {None}, tdoc : TailnetDoc \cup {None},
                 event : EventType \cup {None}]
  BY DEF NoRun
<1>2. pc' = [pc EXCEPT ![p] = next] /\ (run' = run \/ run' = [run EXCEPT ![p] = NoRun])
  BY DEF Step
<1>3. next # "idle" => run' = run
  BY DEF Step
<1> QED
  BY <1>1, <1>2, <1>3 DEF IInv, TypeOK, MemoryIsStorable, Writing

-----------------------------------------------------------------------------
(* The copies the commands make.                                            *)

\* Replacing one record by a restricted one keeps a registry storable.
LEMMA EditKeeps ==
  ASSUME NEW doc, StorableDoc(doc), NEW n \in Names, NEW rec \in Account \cup {None},
         rec # None => RestrictedChild(rec)
  PROVE  StorableDoc([doc EXCEPT ![n] = rec])
BY DEF StorableDoc, Registry, Restricted, Exists

\* Taking a share back leaves the rest of the account as it was.
LEMMA WithoutShareKeeps ==
  ASSUME NEW doc, StorableDoc(doc), NEW n \in Names, Exists(doc, n), NEW to
  PROVE  StorableDoc(WithoutShare(doc, n, to))
<1> DEFINE rec == [doc[n] EXCEPT !.shares = {s \in doc[n].shares : s.to # to}]
<1>1. doc[n] \in Account /\ RestrictedChild(doc[n])
  BY DEF StorableDoc, Registry, Restricted, Exists
<1>2. rec \in Account
  BY <1>1 DEF Account
<1>3. RestrictedChild(rec)
  BY <1>1 DEF Account, RestrictedChild, SharedTo
<1>4. WithoutShare(doc, n, to) = [doc EXCEPT ![n] = rec]
  BY <1>1 DEF WithoutShare, StorableDoc, Registry
<1> HIDE DEF rec
<1>5. StorableDoc([doc EXCEPT ![n] = rec])
  BY <1>2, <1>3, EditKeeps
<1> QED
  BY <1>4, <1>5

\* Every command that rewrites the registry keeps the invariant.
LEMMA AccountsKeep ==
  ASSUME IInv, NEW p \in Procs, Accounts(p)
  PROVE  IInv'
<1>1. StorableDoc(users)
  BY DEF IInv, TypeOK, ChildSurface, StorableDoc, Restricted
<1>2. users \in Registry /\ ids \in 0..MaxIds
  BY DEF IInv, TypeOK
<1>3. ASSUME NEW n \in Names, NEW tier \in Tiers, NEW g \in Names \cup {None},
             CreateUser(p, n, tier, g)
      PROVE  IInv'
  <2> DEFINE rec == NewAccount(tier, IF tier = "child" THEN g ELSE None, ids + 1)
             doc == [users EXCEPT ![n] = rec]
             event == Event("user.created", n, None, n)
  <2>1. ids < MaxIds /\ ids' = ids + 1 /\ Begin(p, "mkdir", doc, event)
    BY <1>3 DEF CreateUser, FreshId
  <2>2. ids' \in 0..MaxIds /\ ids + 1 \in 1..MaxIds
    BY <1>2, <2>1
  <2>3. rec \in Account /\ RestrictedChild(rec)
    BY <2>2 DEF NewAccount, Account, RestrictedChild, SharedTo
  <2>4. StorableDoc(doc)
    <3> HIDE DEF rec
    <3> QED
      BY <1>1, <2>3, EditKeeps
  <2>5. event \in EventType /\ NamesAScope(event)
    BY DEF Event, EventType, Actions, NamesAScope
  <2> HIDE DEF rec, doc, event
  <2> QED
    BY <2>1, <2>2, <2>4, <2>5, BeginKeeps
<1>4. ASSUME NEW n \in Names, NEW d \in Devices, NEW by \in Names \cup {None},
             AddDevice(p, n, d, by)
      PROVE  IInv'
  <2> DEFINE rec == [users[n] EXCEPT !.devices = @ \cup {[name |-> d, reg |-> ids + 1]}]
             doc == [users EXCEPT ![n].devices = @ \cup {[name |-> d, reg |-> ids + 1]}]
             event == Event("device.added", n, d, IF by = None THEN n ELSE by)
  <2>1. /\ Exists(users, n)
        /\ ids < MaxIds /\ ids' = ids + 1 /\ Begin(p, "save", doc, event)
    BY <1>4 DEF AddDevice, FreshId
  <2>2. ids' \in 0..MaxIds /\ ids + 1 \in 1..MaxIds
    BY <1>2, <2>1
  <2>3. users[n] \in Account /\ RestrictedChild(users[n])
    BY <1>1, <2>1 DEF StorableDoc, Registry, Restricted, Exists
  <2>4. rec \in Account
    BY <2>2, <2>3 DEF Account, Device
  <2>5. RestrictedChild(rec)
    BY <2>3 DEF Account, RestrictedChild, SharedTo
  <2>6. doc = [users EXCEPT ![n] = rec]
    BY <1>2 DEF Registry
  <2>7. StorableDoc(doc)
    <3> HIDE DEF rec, doc
    <3>1. StorableDoc([users EXCEPT ![n] = rec])
      BY <1>1, <2>4, <2>5, EditKeeps
    <3> QED
      BY <3>1, <2>6
  <2>8. event \in EventType /\ NamesAScope(event)
    BY DEF Event, EventType, Actions, NamesAScope
  <2> HIDE DEF rec, doc, event
  <2> QED
    BY <2>1, <2>2, <2>7, <2>8, BeginKeeps
<1>5. ASSUME NEW n \in Names, NEW d \in Devices, NEW by \in Names \cup {None},
             RevokeDevice(p, n, d, by)
      PROVE  IInv'
  <2> DEFINE actor == IF by = None THEN n ELSE by
             rec == [users[n] EXCEPT !.devices = {x \in @ : x.name # d}]
             doc == [users EXCEPT ![n].devices = {x \in @ : x.name # d}]
             event == Event("device.revoked", n, d, actor)
  <2>1. Exists(users, n) /\ ids' = ids /\ Begin(p, "save", doc, event)
    BY <1>5 DEF RevokeDevice
  <2>2. users[n] \in Account /\ RestrictedChild(users[n])
    BY <1>1, <2>1 DEF StorableDoc, Registry, Restricted, Exists
  <2>3. rec \in Account
    BY <2>2 DEF Account
  <2>4. RestrictedChild(rec)
    BY <2>2 DEF Account, RestrictedChild, SharedTo
  <2>5. doc = [users EXCEPT ![n] = rec]
    BY <1>2 DEF Registry
  <2>6. StorableDoc(doc)
    <3> HIDE DEF rec, doc
    <3>1. StorableDoc([users EXCEPT ![n] = rec])
      BY <1>1, <2>3, <2>4, EditKeeps
    <3> QED
      BY <3>1, <2>5
  <2>7. event \in EventType /\ NamesAScope(event)
    BY DEF Event, EventType, Actions, NamesAScope
  <2> HIDE DEF rec, doc, event
  <2> QED
    BY <1>2, <2>1, <2>6, <2>7, BeginKeeps
<1>6. ASSUME NEW n \in Names, NEW i \in Integrations, AddIntegration(p, n, i)
      PROVE  IInv'
  <2> DEFINE rec == [users[n] EXCEPT !.integrations = @ \cup {i}]
             doc == [users EXCEPT ![n].integrations = @ \cup {i}]
             event == Event("integration.added", n, i, n)
  <2>1. /\ Exists(users, n) /\ users[n].tier = "adult"
        /\ ids' = ids /\ Begin(p, "save", doc, event)
    BY <1>6 DEF AddIntegration
  <2>2. users[n] \in Account
    BY <1>1, <2>1 DEF StorableDoc, Registry, Exists
  <2>3. rec \in Account
    BY <2>2 DEF Account
  <2>4. RestrictedChild(rec)
    BY <2>1, <2>2 DEF Account, RestrictedChild
  <2>5. doc = [users EXCEPT ![n] = rec]
    BY <1>2 DEF Registry
  <2>6. StorableDoc(doc)
    <3> HIDE DEF rec, doc
    <3>1. StorableDoc([users EXCEPT ![n] = rec])
      BY <1>1, <2>3, <2>4, EditKeeps
    <3> QED
      BY <3>1, <2>5
  <2>7. event \in EventType /\ NamesAScope(event)
    BY DEF Event, EventType, Actions, NamesAScope
  <2> HIDE DEF rec, doc, event
  <2> QED
    BY <1>2, <2>1, <2>6, <2>7, BeginKeeps
<1>7. ASSUME NEW n \in Names, NEW by \in Names, Graduate(p, n, by)
      PROVE  IInv'
  <2> DEFINE rec == [users[n] EXCEPT !.tier = "adult", !.guardian = None]
             doc == [users EXCEPT ![n].tier = "adult", ![n].guardian = None]
             event == Event("user.graduated", n, None, by)
  <2>1. Exists(users, n) /\ ids' = ids /\ Begin(p, "save", doc, event)
    BY <1>7 DEF Graduate
  <2>2. users[n] \in Account
    BY <1>1, <2>1 DEF StorableDoc, Registry, Exists
  <2>3. rec \in Account /\ RestrictedChild(rec)
    BY <2>2 DEF Account, RestrictedChild, Tiers
  <2>4. doc = [users EXCEPT ![n] = rec]
    BY <1>2, <2>2 DEF Registry, Account
  <2>5. StorableDoc(doc)
    <3> HIDE DEF rec, doc
    <3>1. StorableDoc([users EXCEPT ![n] = rec])
      BY <1>1, <2>3, EditKeeps
    <3> QED
      BY <3>1, <2>4
  <2>6. event \in EventType /\ NamesAScope(event)
    BY DEF Event, EventType, Actions, NamesAScope
  <2> HIDE DEF rec, doc, event
  <2> QED
    BY <1>2, <2>1, <2>5, <2>6, BeginKeeps
<1>8. ASSUME NEW n \in Names, DeleteUser(p, n)
      PROVE  IInv'
  <2> DEFINE doc == [users EXCEPT ![n] = None]
             event == Event("user.deleted", n, None, n)
  <2>1. ids' = ids /\ Begin(p, "burn", doc, event)
    BY <1>8 DEF DeleteUser
  <2>2. StorableDoc(doc)
    BY <1>1, EditKeeps
  <2>3. event \in EventType /\ NamesAScope(event)
    BY DEF Event, EventType, Actions, NamesAScope
  <2> HIDE DEF doc, event
  <2> QED
    BY <1>2, <2>1, <2>2, <2>3, BeginKeeps
<1> QED
  BY <1>3, <1>4, <1>5, <1>6, <1>7, <1>8 DEF Accounts

\* So does every command of the sharing ladder.
LEMMA SharingKeeps ==
  ASSUME IInv, NEW p \in Procs, Sharing(p)
  PROVE  IInv'
<1>1. StorableDoc(users)
  BY DEF IInv, TypeOK, ChildSurface, StorableDoc, Restricted
<1>2. users \in Registry /\ ids \in 0..MaxIds
  BY DEF IInv, TypeOK
<1>3. ASSUME NEW n \in Names, NEW to \in Scopes, NEW by \in Names \cup {None},
             GrantShare(p, n, to, by)
      PROVE  IInv'
  <2> DEFINE share == [to |-> to, id |-> IdOf(users, to)]
             rec == [users[n] EXCEPT !.shares = @ \cup {share}]
             doc == [users EXCEPT ![n].shares = @ \cup {share}]
             event == Event("share.granted", n, to, IF by = None THEN n ELSE by)
  <2>1. /\ Exists(users, n) /\ ~(to = "world" /\ users[n].tier = "child")
        /\ ids' = ids /\ Begin(p, "save", doc, event)
    BY <1>3 DEF GrantShare, MayGrant
  <2>2. users[n] \in Account /\ RestrictedChild(users[n])
    BY <1>1, <2>1 DEF StorableDoc, Registry, Restricted, Exists
  <2>3. share \in Share
    BY <1>2 DEF Share, IdOf, Exists, Registry, Account
  <2>4. share.to = to
    OBVIOUS
  <2> HIDE DEF share
  <2>5. rec \in Account
    BY <2>2, <2>3 DEF Account
  <2>6. RestrictedChild(rec)
    BY <2>1, <2>2, <2>4 DEF Account, RestrictedChild, SharedTo
  <2>7. doc = [users EXCEPT ![n] = rec]
    BY <1>2 DEF Registry
  <2>8. StorableDoc(doc)
    <3> HIDE DEF rec, doc
    <3>1. StorableDoc([users EXCEPT ![n] = rec])
      BY <1>1, <2>5, <2>6, EditKeeps
    <3> QED
      BY <3>1, <2>7
  <2>9. event \in EventType /\ NamesAScope(event)
    BY DEF Event, EventType, Actions, NamesAScope
  <2> HIDE DEF rec, doc, event
  <2> QED
    BY <1>2, <2>1, <2>8, <2>9, BeginKeeps
<1>4. ASSUME NEW n \in Names, NEW to \in Scopes, NEW actor \in Names \cup {None},
             Exists(users, n),
             Begin(p, "save", WithoutShare(users, n, to),
                   Event("share.revoked", n, to, actor)),
             UNCHANGED ids
      PROVE  IInv'
  <2> DEFINE doc == WithoutShare(users, n, to)
             event == Event("share.revoked", n, to, actor)
  <2>1. StorableDoc(doc)
    BY <1>1, <1>4, WithoutShareKeeps
  <2>2. event \in EventType /\ NamesAScope(event)
    BY DEF Event, EventType, Actions, NamesAScope
  <2>3. Begin(p, "save", doc, event) /\ ids' = ids
    BY <1>4
  <2> HIDE DEF doc, event
  <2> QED
    BY <1>2, <2>1, <2>2, <2>3, BeginKeeps
<1>5. ASSUME NEW n \in Names, NEW to \in Scopes, NEW by \in Names \cup {None},
             RevokeShare(p, n, to, by)
      PROVE  IInv'
  BY <1>4, <1>5 DEF RevokeShare
<1>6. ASSUME NEW n \in Names, NEW to \in Scopes, NEW by \in Names,
             GuardianRevokeShare(p, n, to, by)
      PROVE  IInv'
  BY <1>4, <1>6 DEF GuardianRevokeShare
<1> QED
  BY <1>3, <1>5, <1>6 DEF Sharing

\* The tailnet commands only make tailnet records.
LEMMA TailnetKeeps ==
  ASSUME IInv, NEW p \in Procs, Tailnet(p)
  PROVE  IInv'
<1>1. tailnet \in TailnetDoc /\ users \in Registry
  BY DEF IInv, TypeOK
<1>2. ASSUME NEW k \in Names \X Devices,
             NEW row \in [state : {"pending", "active"}, reg : 1..MaxIds] \cup {None}
      PROVE  [tailnet EXCEPT ![k] = row] \in TailnetDoc
  BY <1>1 DEF TailnetDoc
<1>3. ASSUME NEW u \in Names, NEW d \in Devices, Exists(users, u),
             d \in DeviceNames(users[u])
      PROVE  Registration(u, d).reg \in 1..MaxIds
  <2>1. users[u].devices \subseteq Device
    BY <1>1, <1>3 DEF Registry, Account, Exists
  <2>2. PICK x \in users[u].devices : x.name = d
    BY <1>3 DEF DeviceNames
  <2>3. Registration(u, d) \in users[u].devices
    BY <2>2 DEF Registration
  <2> QED
    BY <2>1, <2>3 DEF Device
<1>4. ASSUME NEW u \in Names, NEW d \in Devices, Onboard(p, u, d)
      PROVE  IInv'
  <2> DEFINE row == [state |-> "pending", reg |-> Registration(u, d).reg]
             tdoc == [tailnet EXCEPT ![<<u, d>>] = row]
             event == Event("tailnet.onboarded", u, d, u)
  <2>1. BeginTailnet(p, tdoc, event)
    BY <1>4 DEF Onboard
  <2>2. Registration(u, d).reg \in 1..MaxIds
    BY <1>3, <1>4 DEF Onboard
  <2>3. tdoc \in TailnetDoc
    BY <1>2, <2>2
  <2>4. event \in EventType
    BY DEF Event, EventType, Actions
  <2> HIDE DEF tdoc, event
  <2> QED
    BY <2>1, <2>3, <2>4, BeginTailnetKeeps
<1>5. ASSUME NEW u \in Names, NEW d \in Devices, Claim(p, u, d)
      PROVE  IInv'
  <2> DEFINE row == [state |-> "active", reg |-> Registration(u, d).reg]
             tdoc == [tailnet EXCEPT ![<<u, d>>] = row]
             event == Event("tailnet.claimed", u, d, u)
  <2>1. BeginTailnet(p, tdoc, event)
    BY <1>5 DEF Claim
  <2>2. Registration(u, d).reg \in 1..MaxIds
    BY <1>3, <1>5 DEF Claim
  <2>3. tdoc \in TailnetDoc
    BY <1>2, <2>2
  <2>4. event \in EventType
    BY DEF Event, EventType, Actions
  <2> HIDE DEF tdoc, event
  <2> QED
    BY <2>1, <2>3, <2>4, BeginTailnetKeeps
<1>6. ASSUME NEW u \in Names, NEW d \in Devices, Drop(p, u, d)
      PROVE  IInv'
  <2> DEFINE tdoc == [tailnet EXCEPT ![<<u, d>>] = None]
             event == Event("tailnet.dropped", u, d, u)
  <2>1. BeginTailnet(p, tdoc, event)
    BY <1>6 DEF Drop
  <2>2. tdoc \in TailnetDoc
    BY <1>2
  <2>3. event \in EventType
    BY DEF Event, EventType, Actions
  <2> HIDE DEF tdoc, event
  <2> QED
    BY <2>1, <2>2, <2>3, BeginTailnetKeeps
<1> QED
  BY <1>4, <1>5, <1>6 DEF Tailnet

-----------------------------------------------------------------------------
(* The writes of a running command.                                         *)

\* Each write of a running command, the whole registry included, keeps the invariant.
LEMMA WritesKeep ==
  ASSUME IInv, NEW p \in Procs, Writes(p)
  PROVE  IInv'
<1> USE DEF IInv
<1>1. pc[p] \in Writing => run[p].doc \in Registry /\ run[p].event \in EventType
  BY DEF MemoryIsStorable, StorableDoc
<1>2. pc[p] \in Writing => run[p].event.user \in Names
  BY <1>1 DEF EventType
<1>3. CASE MakeVaultDir(p)
  <2>1. pc[p] \in Writing /\ (Step(p, "idle") \/ Step(p, "mkkey"))
    BY <1>3 DEF MakeVaultDir, Writing
  <2>2. UNCHANGED <<users, ring, tailnet, ids, granted, burnt, crashes>>
    BY <1>3 DEF MakeVaultDir
  <2>3. dirs' \in [Names -> BOOLEAN]
    BY <1>2, <1>3, <2>1 DEF MakeVaultDir, TypeOK
  <2>4. TypeOK' /\ MemoryIsStorable'
    BY <2>1, <2>2, <2>3, StepKeeps DEF TypeOK
  <2> QED
    BY <2>2, <2>4 DEF ChildSurface, Exists
<1>4. CASE CreateKey(p)
  <2>1. pc[p] \in Writing /\ (Step(p, "idle") \/ Step(p, "save"))
    BY <1>4 DEF CreateKey, Writing
  <2>2. burnt' \subseteq Names /\ UNCHANGED <<users, dirs, tailnet, ids, granted, crashes>>
    BY <1>4 DEF CreateKey, TypeOK
  <2>3. ring' \in [Names -> {"none", "live", "escrowed"}]
    BY <1>2, <1>4, <2>1 DEF CreateKey, KeyFor, TypeOK
  <2>4. TypeOK' /\ MemoryIsStorable'
    BY <2>1, <2>2, <2>3, StepKeeps DEF TypeOK
  <2> QED
    BY <2>2, <2>4 DEF ChildSurface, Exists
<1>5. CASE BurnKey(p)
  <2>1. pc[p] \in Writing /\ (Step(p, "idle") \/ Step(p, "wipe"))
    BY <1>5 DEF BurnKey, Writing
  <2>2. burnt' \subseteq Names /\ UNCHANGED <<users, dirs, tailnet, ids, granted, crashes>>
    BY <1>2, <1>5, <2>1 DEF BurnKey, TypeOK
  <2>3. ring' \in [Names -> {"none", "live", "escrowed"}]
    BY <1>2, <1>5, <2>1 DEF BurnKey, TypeOK
  <2>4. TypeOK' /\ MemoryIsStorable'
    BY <2>1, <2>2, <2>3, StepKeeps DEF TypeOK
  <2> QED
    BY <2>2, <2>4 DEF ChildSurface, Exists
<1>6. CASE WipeVaultDir(p)
  <2>1. pc[p] \in Writing /\ Step(p, "save")
    BY <1>6 DEF WipeVaultDir, Writing
  <2>2. UNCHANGED <<users, ring, tailnet, ids, granted, burnt, crashes>>
    BY <1>6 DEF WipeVaultDir
  <2>3. dirs' \in [Names -> BOOLEAN]
    BY <1>2, <1>6, <2>1 DEF WipeVaultDir, TypeOK
  <2>4. TypeOK' /\ MemoryIsStorable'
    BY <2>1, <2>2, <2>3, StepKeeps DEF TypeOK
  <2> QED
    BY <2>2, <2>4 DEF ChildSurface, Exists
<1>7. CASE SaveUsers(p)
  <2>1. /\ pc[p] = "save" /\ Step(p, "idle")
        /\ users' = run[p].doc /\ granted' = GrantedAfter(run[p].event)
        /\ UNCHANGED <<dirs, ring, tailnet, ids, burnt, crashes>>
    BY <1>7 DEF SaveUsers
  <2>2. /\ StorableDoc(run[p].doc)
        /\ run[p].event \in EventType /\ NamesAScope(run[p].event)
    BY <2>1 DEF MemoryIsStorable, Writing
  <2>3. granted' \subseteq Names \X Scopes
    <3> DEFINE event == run[p].event
    <3>1. event.user \in Names /\ (event.action = "share.granted" => event.arg \in Scopes)
      BY <2>2 DEF EventType, NamesAScope
    <3>2. granted \subseteq Names \X Scopes /\ granted' = GrantedAfter(event)
      BY <2>1 DEF TypeOK
    <3> HIDE DEF event
    <3>3. CASE event.action = "share.granted"
      BY <3>1, <3>2, <3>3 DEF GrantedAfter
    <3>4. CASE event.action # "share.granted"
      <4>1. GrantedAfter(event) \subseteq granted
        BY <3>4 DEF GrantedAfter
      <4> QED
        BY <3>2, <4>1
    <3> QED
      BY <3>3, <3>4
  <2>4. users' \in Registry
    BY <2>1, <2>2 DEF StorableDoc
  <2>5. TypeOK' /\ MemoryIsStorable'
    BY <2>1, <2>3, <2>4, StepKeeps DEF TypeOK
  <2>6. ChildSurface'
    BY <2>1, <2>2 DEF StorableDoc, Restricted, ChildSurface, Exists
  <2> QED
    BY <2>5, <2>6
<1>8. CASE SaveTailnet(p)
  <2>1. /\ pc[p] = "tsave" /\ Step(p, "idle") /\ tailnet' = run[p].tdoc
        /\ UNCHANGED <<users, dirs, ring, ids, granted, burnt, crashes>>
    BY <1>8 DEF SaveTailnet
  <2>2. tailnet' \in TailnetDoc
    BY <2>1 DEF MemoryIsStorable
  <2>3. TypeOK' /\ MemoryIsStorable'
    BY <2>1, <2>2, StepKeeps DEF TypeOK
  <2> QED
    BY <2>1, <2>3 DEF ChildSurface, Exists
<1> QED
  BY <1>3, <1>4, <1>5, <1>6, <1>7, <1>8 DEF Writes

\* A command that dies forgets its copy.
LEMMA CrashKeeps ==
  ASSUME IInv, NEW p \in Procs, Crash(p)
  PROVE  IInv'
<1>1. Step(p, "idle") /\ UNCHANGED <<users, dirs, ring, tailnet, ids, granted, burnt>>
  BY DEF Crash
<1>2. crashes' \in 0..MaxCrashes
  BY DEF Crash, IInv, TypeOK
<1>3. TypeOK' /\ MemoryIsStorable'
  BY <1>1, <1>2, StepKeeps DEF IInv, TypeOK
<1> QED
  BY <1>1, <1>3 DEF IInv, ChildSurface, Exists

\* Hence every step of every process keeps it.
LEMMA StepPreserves == IInv /\ [Next]_vars => IInv'
<1> SUFFICES ASSUME IInv, [Next]_vars PROVE IInv'
  OBVIOUS
<1>1. CASE Next
  BY <1>1, AccountsKeep, SharingKeeps, TailnetKeeps, WritesKeep, CrashKeeps DEF Next
<1>2. CASE UNCHANGED vars
  BY <1>2 DEF vars, IInv, TypeOK, ChildSurface, Exists, MemoryIsStorable
<1> QED
  BY <1>1, <1>2

\* Type correctness of the family vault, whatever races and crashes.
THEOREM TypeCorrect == Spec => []TypeOK
<1>1. IInv => TypeOK
  BY DEF IInv
<1> QED
  BY <1>1, InitEstablishes, StepPreserves, PTL DEF Spec

\* The restricted surface of an under-18 account survives every race: users.json is
\* replaced without a lock (vault.py:113-114), but every copy in every process was made
\* by a command that keeps children restricted.
THEOREM ChildrenStayRestricted == Spec => []ChildSurface
<1>1. IInv => ChildSurface
  BY DEF IInv
<1> QED
  BY <1>1, InitEstablishes, StepPreserves, PTL DEF Spec

-----------------------------------------------------------------------------
(* One command at a time, and any of them dying between two of its writes: *)
(* keys, directories, records and shares agree.                             *)

LifeEvents == {"user.created", "user.deleted"}

Alone == \A p, q \in Procs : pc[p] # "idle" /\ pc[q] # "idle" => p = q

ChildEscrowed(rec) == rec.tier = "child" => rec.escrowed = TRUE
AllEscrowed == \A n \in Names : Exists(users, n) => ChildEscrowed(users[n])

\* The shares an event leaves.
SharesAfter(old, event) ==
  CASE event.action = "share.granted" -> old \cup {event.arg}
    [] event.action = "share.revoked" -> old \ {event.arg}
    [] OTHER -> old

\* A command's copy differs from the stored registry in the record it is about.
Handles(doc, event) ==
  LET n == event.user IN
  /\ \A m \in Names \ {n} : doc[m] = users[m]
  /\ Exists(doc, n) => ChildEscrowed(doc[n])
  /\ event.action = "user.created" => ~Exists(users, n) /\ Exists(doc, n) /\ doc[n].shares = {}
  /\ event.action = "user.deleted" => Exists(users, n) /\ ~Exists(doc, n)
  /\ event.action \notin LifeEvents =>
       /\ Exists(users, n) /\ Exists(doc, n)
       /\ doc[n].escrowed = users[n].escrowed
       /\ SharedTo(doc[n]) = SharesAfter(SharedTo(users[n]), event)

\* How far a creation or a deletion has come.
Phase(step, n, action, rec) ==
  /\ step \in {"mkdir", "mkkey"} => action = "user.created"
  /\ step \in {"burn", "wipe"} => action = "user.deleted"
  /\ step = "save" /\ action = "user.created" => dirs[n] = TRUE /\ ring[n] = KeyFor(rec) /\ n \notin burnt
  /\ step = "wipe" => ring[n] = "none"
  /\ step = "save" /\ action = "user.deleted" => ring[n] = "none"
  /\ step = "mkkey" => dirs[n] = TRUE
  /\ crashes = 0 =>
       /\ step = "mkdir" => dirs[n] = FALSE /\ ring[n] = "none"
       /\ step = "mkkey" => ring[n] = "none"
       /\ step = "burn" => dirs[n] = TRUE /\ ring[n] # "none"
       /\ step = "wipe" => dirs[n] = TRUE
       /\ step = "save" /\ action = "user.deleted" => dirs[n] = FALSE

Commits(p) ==
  pc[p] \in Writing =>
    /\ Handles(run[p].doc, run[p].event)
    /\ Phase(pc[p], run[p].event.user, run[p].event.action, run[p].doc[run[p].event.user])

\* Without a crash an account that no command is creating or deleting is whole.
Whole(n) == /\ dirs[n] = TRUE <=> Exists(users, n)
            /\ ring[n] # "none" <=> Exists(users, n)
InTransit(p, n) ==
  pc[p] \in Writing /\ run[p].event.user = n /\ run[p].event.action \in LifeEvents
WholeUnlessInTransit ==
  crashes = 0 => \A n \in Names : (\A p \in Procs : ~InTransit(p, n)) => Whole(n)

\* The shares of an account, pair by pair.
PairsAreCurrent ==
  \A n \in Names : Exists(users, n) =>
     \A to \in Scopes : to \in SharedTo(users[n]) <=> <<n, to>> \in granted

FInv ==
  /\ Alone /\ KeysAsPromised /\ AllEscrowed /\ PairsAreCurrent
  /\ \A p \in Procs : Commits(p)
  /\ WholeUnlessInTransit

\* What FInv says between two commands.
LEMMA WholeWhenIdle ==
  ASSUME FInv, \A p \in Procs : pc[p] \notin Writing, crashes = 0, NEW n \in Names
  PROVE  Whole(n)
BY DEF FInv, WholeUnlessInTransit, InTransit

\* Shares and grants of a registered account are scopes.
LEMMA SharesAreScopes ==
  ASSUME NEW rec \in Account
  PROVE  SharedTo(rec) \subseteq Scopes
BY DEF Account, Share, SharedTo

\* An idle vault whose files are left alone: nothing but the end of a command happened.
LEMMA IdleKeeps ==
  ASSUME IInv, FInv, \A p \in Procs : pc'[p] \notin Writing, Alone',
         UNCHANGED <<users, dirs, ring, granted, burnt>>,
         crashes' = 0 => crashes = 0 /\ \A n \in Names : Whole(n)
  PROVE  FInv'
<1>1. KeysAsPromised' /\ AllEscrowed' /\ PairsAreCurrent'
  BY DEF FInv, KeysAsPromised, EscrowAsPromised, KeyPromised, KeyDiesFirst, AllEscrowed, PairsAreCurrent,
         Exists, ChildEscrowed, SharedTo
<1>2. \A p \in Procs : Commits(p)'
  BY DEF Commits
<1>3. WholeUnlessInTransit'
  BY DEF WholeUnlessInTransit, Whole, Exists
<1> QED
  BY <1>1, <1>2, <1>3 DEF FInv

\* A command that begins: nobody else is running, and its copy and phase are right.
LEMMA BeginIsAlone ==
  ASSUME Serial = TRUE, IInv, FInv, NEW p \in Procs, NEW next \in {"mkdir", "burn", "save"},
         NEW doc, NEW event, Free(p), Begin(p, next, doc, event),
         Handles(doc, event), Phase(next, event.user, event.action, doc[event.user])
  PROVE  FInv'
<1> DEFINE memory == [NoRun EXCEPT !.doc = doc, !.event = event]
<1>1. /\ pc' = [pc EXCEPT ![p] = next]
      /\ run' = [run EXCEPT ![p] = memory]
      /\ UNCHANGED <<users, dirs, ring, granted, burnt, crashes>>
  BY DEF Begin
<1>2. memory.doc = doc /\ memory.event = event
  BY DEF NoRun
<1> HIDE DEF memory
<1>3. \A q \in Procs : pc[q] = "idle"
  BY DEF Free
<1>4. pc'[p] = next /\ run'[p] = memory /\ \A q \in Procs \ {p} : pc'[q] = "idle"
  BY <1>1, <1>3 DEF IInv, TypeOK
<1>5. Alone'
  BY <1>4 DEF Alone
<1>6. KeysAsPromised' /\ AllEscrowed' /\ PairsAreCurrent'
  BY <1>1 DEF FInv, KeysAsPromised, EscrowAsPromised, KeyPromised, KeyDiesFirst, AllEscrowed,
              PairsAreCurrent, Exists, ChildEscrowed, SharedTo
<1>7. ASSUME NEW q \in Procs PROVE Commits(q)'
  <2>1. CASE q = p
    <3>1. run'[p].doc = doc /\ run'[p].event = event
      BY <1>2, <1>4
    <3>2. Handles(doc, event)'
      BY <1>1 DEF Handles, Exists
    <3>3. Phase(next, event.user, event.action, doc[event.user])'
      BY <1>1 DEF Phase
    <3> QED
      BY <1>4, <2>1, <3>1, <3>2, <3>3 DEF Commits
  <2>2. CASE q # p
    BY <1>4, <2>2 DEF Commits, Writing
  <2> QED
    BY <2>1, <2>2
<1>8. WholeUnlessInTransit'
  <2>1. crashes = 0 => \A n \in Names : Whole(n)
    BY <1>3, WholeWhenIdle DEF Writing
  <2> QED
    BY <1>1, <2>1 DEF WholeUnlessInTransit, Whole, Exists
<1> QED
  BY <1>5, <1>6, <1>7, <1>8 DEF FInv

\* An edit of one record that keeps its escrow and the shares its event leaves.
LEMMA EditIsHandled ==
  ASSUME IInv, FInv, NEW n \in Names, Exists(users, n), NEW rec, rec # None,
         rec.escrowed = users[n].escrowed, ChildEscrowed(rec),
         NEW event, event.user = n, event.action \notin LifeEvents,
         SharedTo(rec) = SharesAfter(SharedTo(users[n]), event)
  PROVE  /\ Handles([users EXCEPT ![n] = rec], event)
         /\ \A x : Phase("save", n, event.action, x)
<1> DEFINE doc == [users EXCEPT ![n] = rec]
<1>1. doc[n] = rec /\ \A m \in Names \ {n} : doc[m] = users[m]
  BY DEF IInv, TypeOK, Registry
<1> HIDE DEF doc
<1>2. Handles(doc, event)
  BY <1>1 DEF Handles, Exists, LifeEvents
<1>3. \A x : Phase("save", n, event.action, x)
  BY DEF Phase, LifeEvents
<1> QED
  BY <1>2, <1>3 DEF doc

\* A new record is an account, hence not the missing one.
LEMMA NewAccountIsTyped ==
  ASSUME IInv, NEW tier \in Tiers, NEW g \in Names \cup {None}, ids < MaxIds
  PROVE  LET rec == NewAccount(tier, IF tier = "child" THEN g ELSE None, ids + 1)
         IN  rec \in Account /\ rec # None
<1> DEFINE rec == NewAccount(tier, IF tier = "child" THEN g ELSE None, ids + 1)
<1>1. ids + 1 \in 1..MaxIds
  BY DEF IInv, TypeOK
<1>2. rec \in Account
  BY <1>1 DEF NewAccount, Account
<1> QED
  BY <1>2, NoneAssumption

\* The commands on accounts and devices.
LEMMA AccountsAgree ==
  ASSUME Serial = TRUE, IInv, FInv, NEW p \in Procs, Accounts(p)
  PROVE  FInv'
<1>1. users \in Registry
  BY DEF IInv, TypeOK
<1>2. \A n \in Names : Exists(users, n) => users[n] \in Account /\ ChildEscrowed(users[n])
  BY <1>1 DEF FInv, AllEscrowed, Registry, Exists
<1>3. ASSUME Free(p), crashes = 0, NEW n \in Names PROVE Whole(n)
  BY <1>3, WholeWhenIdle DEF Free, Writing
<1>4. ASSUME NEW n \in Names, NEW tier \in Tiers, NEW g \in Names \cup {None},
             CreateUser(p, n, tier, g)
      PROVE  FInv'
  <2> DEFINE rec == NewAccount(tier, IF tier = "child" THEN g ELSE None, ids + 1)
             doc == [users EXCEPT ![n] = rec]
             event == Event("user.created", n, None, n)
  <2>1. Free(p) /\ ~Exists(users, n) /\ Begin(p, "mkdir", doc, event)
    BY <1>4 DEF CreateUser
  <2>2. /\ rec.shares = {} /\ ChildEscrowed(rec)
        /\ event.user = n /\ event.action = "user.created"
    BY DEF NewAccount, ChildEscrowed, Event
  <2>3. rec # None
    BY <1>4, NewAccountIsTyped DEF CreateUser, FreshId
  <2>4. doc[n] = rec /\ \A m \in Names \ {n} : doc[m] = users[m]
    BY <1>1 DEF Registry
  <2> HIDE DEF rec, doc, event
  <2>5. Handles(doc, event)
    BY <2>1, <2>2, <2>3, <2>4 DEF Handles, Exists, LifeEvents
  <2>6. Phase("mkdir", event.user, event.action, doc[event.user])
    <3>1. crashes = 0 => dirs[n] = FALSE /\ ring[n] = "none"
      BY <1>3, <2>1 DEF Whole, IInv, TypeOK
    <3> QED
      BY <2>2, <3>1 DEF Phase
  <2> QED
    BY <2>1, <2>5, <2>6, BeginIsAlone
<1>5. ASSUME NEW n \in Names, DeleteUser(p, n) PROVE FInv'
  <2> DEFINE doc == [users EXCEPT ![n] = None]
             event == Event("user.deleted", n, None, n)
  <2>1. Free(p) /\ Exists(users, n) /\ Begin(p, "burn", doc, event)
    BY <1>5 DEF DeleteUser
  <2>2. event.user = n /\ event.action = "user.deleted"
    BY DEF Event
  <2>3. doc[n] = None /\ \A m \in Names \ {n} : doc[m] = users[m]
    BY <1>1 DEF Registry
  <2> HIDE DEF doc, event
  <2>4. Handles(doc, event)
    BY <2>1, <2>2, <2>3 DEF Handles, Exists, LifeEvents
  <2>5. Phase("burn", event.user, event.action, doc[event.user])
    <3>1. crashes = 0 => dirs[n] = TRUE /\ ring[n] # "none"
      BY <1>3, <2>1 DEF Whole
    <3> QED
      BY <2>2, <3>1 DEF Phase
  <2> QED
    BY <2>1, <2>4, <2>5, BeginIsAlone
<1>6. ASSUME NEW n \in Names, Exists(users, n), NEW rec, NEW action, NEW arg, NEW by,
             rec # None, rec.escrowed = users[n].escrowed, ChildEscrowed(rec),
             rec.shares = users[n].shares,
             action \notin LifeEvents \cup {"share.granted", "share.revoked"}, Free(p),
             Begin(p, "save", [users EXCEPT ![n] = rec], Event(action, n, arg, by))
      PROVE  FInv'
  <2> DEFINE event == Event(action, n, arg, by)
             doc == [users EXCEPT ![n] = rec]
  <2>1. event.user = n /\ event.action = action
    BY DEF Event
  <2>2. Begin(p, "save", doc, event)
    BY <1>6
  <2> HIDE DEF event
  <2>3. SharedTo(rec) = SharesAfter(SharedTo(users[n]), event)
    BY <1>6, <2>1 DEF SharedTo, SharesAfter
  <2>4. Handles(doc, event) /\ Phase("save", event.user, event.action, doc[event.user])
    BY <1>6, <2>1, <2>3, EditIsHandled
  <2> HIDE DEF doc
  <2> QED
    BY <1>6, <2>2, <2>4, BeginIsAlone
<1>7. ASSUME NEW n \in Names, NEW d \in Devices, NEW by \in Names \cup {None},
             AddDevice(p, n, d, by) \/ RevokeDevice(p, n, d, by)
      PROVE  FInv'
  <2>1. Exists(users, n) /\ Free(p)
    BY <1>7 DEF AddDevice, RevokeDevice
  <2>0. PICK devices \in SUBSET Device :
          \E action, actor :
            /\ Begin(p, "save", [users EXCEPT ![n].devices = devices], Event(action, n, d, actor))
            /\ action \in {"device.added", "device.revoked"}
    <3>1. users[n].devices \subseteq Device
      BY <1>2, <2>1 DEF Account
    <3>2. CASE AddDevice(p, n, d, by)
      <4>1. ids + 1 \in 1..MaxIds
        BY <3>2 DEF AddDevice, FreshId, IInv, TypeOK
      <4>2. users[n].devices \cup {[name |-> d, reg |-> ids + 1]} \in SUBSET Device
        BY <3>1, <4>1 DEF Device
      <4>3. Begin(p, "save",
                  [users EXCEPT ![n].devices =
                     users[n].devices \cup {[name |-> d, reg |-> ids + 1]}],
                  Event("device.added", n, d, IF by = None THEN n ELSE by))
        BY <1>1, <3>2 DEF AddDevice, Registry
      <4> QED
        BY <4>2, <4>3
    <3>3. CASE RevokeDevice(p, n, d, by)
      <4>1. {x \in users[n].devices : x.name # d} \in SUBSET Device
        BY <3>1
      <4>2. Begin(p, "save",
                  [users EXCEPT ![n].devices = {x \in users[n].devices : x.name # d}],
                  Event("device.revoked", n, d, IF by = None THEN n ELSE by))
        BY <1>1, <3>3 DEF RevokeDevice, Registry
      <4> QED
        BY <4>1, <4>2
    <3> QED
      BY <1>7, <3>2, <3>3
  <2>2. PICK action, actor :
          /\ Begin(p, "save", [users EXCEPT ![n].devices = devices], Event(action, n, d, actor))
          /\ action \in {"device.added", "device.revoked"}
    BY <2>0
  <2> DEFINE rec == [users[n] EXCEPT !.devices = devices]
  <2>3. /\ rec.escrowed = users[n].escrowed /\ rec.shares = users[n].shares
        /\ rec.tier = users[n].tier /\ rec # None
    BY <1>2, <2>1, NoneAssumption DEF Account
  <2>4. [users EXCEPT ![n].devices = devices] = [users EXCEPT ![n] = rec]
    BY <1>1 DEF Registry
  <2> HIDE DEF rec
  <2>5. ChildEscrowed(rec)
    BY <1>2, <2>1, <2>3 DEF ChildEscrowed
  <2> QED
    BY <1>6, <2>1, <2>2, <2>3, <2>4, <2>5 DEF LifeEvents
<1>8. ASSUME NEW n \in Names, NEW i \in Integrations, AddIntegration(p, n, i) PROVE FInv'
  <2> DEFINE rec == [users[n] EXCEPT !.integrations = @ \cup {i}]
  <2>1. /\ Exists(users, n) /\ Free(p)
        /\ Begin(p, "save", [users EXCEPT ![n].integrations = @ \cup {i}],
                 Event("integration.added", n, i, n))
    BY <1>8 DEF AddIntegration
  <2>3. /\ rec.escrowed = users[n].escrowed /\ rec.shares = users[n].shares
        /\ rec.tier = users[n].tier /\ rec # None
    BY <1>2, <2>1, NoneAssumption DEF Account
  <2>4. [users EXCEPT ![n].integrations = @ \cup {i}] = [users EXCEPT ![n] = rec]
    BY <1>1 DEF Registry
  <2> HIDE DEF rec
  <2>5. ChildEscrowed(rec)
    BY <1>2, <2>1, <2>3 DEF ChildEscrowed
  <2> QED
    BY <1>6, <2>1, <2>3, <2>4, <2>5 DEF LifeEvents
<1>9. ASSUME NEW n \in Names, NEW by \in Names, Graduate(p, n, by) PROVE FInv'
  <2> DEFINE rec == [users[n] EXCEPT !.tier = "adult", !.guardian = None]
  <2>1. /\ Exists(users, n) /\ Free(p)
        /\ Begin(p, "save", [users EXCEPT ![n].tier = "adult", ![n].guardian = None],
                 Event("user.graduated", n, None, by))
    BY <1>9 DEF Graduate
  <2>3. /\ rec.escrowed = users[n].escrowed /\ rec.shares = users[n].shares
        /\ rec.tier = "adult" /\ rec # None
    BY <1>2, <2>1, NoneAssumption DEF Account, Tiers
  <2>4. [users EXCEPT ![n].tier = "adult", ![n].guardian = None] = [users EXCEPT ![n] = rec]
    BY <1>1, <1>2, <2>1 DEF Registry, Account
  <2> HIDE DEF rec
  <2>5. ChildEscrowed(rec)
    BY <2>3 DEF ChildEscrowed
  <2> QED
    BY <1>6, <2>1, <2>3, <2>4, <2>5 DEF LifeEvents
<1> QED
  BY <1>4, <1>5, <1>7, <1>8, <1>9 DEF Accounts

Targets(shares) == {s.to : s \in shares}

\* The sharing ladder.
LEMMA SharingAgrees ==
  ASSUME Serial = TRUE, IInv, FInv, NEW p \in Procs, Sharing(p)
  PROVE  FInv'
<1>1. users \in Registry
  BY DEF IInv, TypeOK
<1>2. \A n \in Names : Exists(users, n) => users[n] \in Account /\ ChildEscrowed(users[n])
  BY <1>1 DEF FInv, AllEscrowed, Registry, Exists
<1>3. ASSUME NEW n \in Names, Exists(users, n), NEW to \in Scopes,
             NEW shares \in SUBSET Share, NEW action, NEW by,
             \/ /\ action = "share.granted"
                /\ Targets(shares) = SharedTo(users[n]) \cup {to}
             \/ /\ action = "share.revoked"
                /\ Targets(shares) = SharedTo(users[n]) \ {to},
             Free(p), Begin(p, "save", [users EXCEPT ![n].shares = shares],
                            Event(action, n, to, by))
      PROVE  FInv'
  <2> DEFINE event == Event(action, n, to, by)
             rec == [users[n] EXCEPT !.shares = shares]
             doc == [users EXCEPT ![n] = rec]
  <2>1. event.user = n /\ event.action = action /\ event.arg = to
    BY DEF Event
  <2>2. /\ rec.escrowed = users[n].escrowed /\ rec.shares = shares
        /\ rec.tier = users[n].tier /\ rec # None
    BY <1>2, <1>3, NoneAssumption DEF Account
  <2>3. Begin(p, "save", doc, event)
    <3>1. [users EXCEPT ![n].shares = shares] = doc
      BY <1>1 DEF Registry
    <3> QED
      BY <1>3, <3>1
  <2> HIDE DEF event, rec
  <2>4. SharedTo(rec) = SharesAfter(SharedTo(users[n]), event)
    <3>1. SharedTo(rec) = Targets(shares)
      BY <2>2 DEF SharedTo, Targets
    <3> QED
      BY <1>3, <2>1, <3>1 DEF SharesAfter
  <2>5. ChildEscrowed(rec)
    BY <1>2, <1>3, <2>2 DEF ChildEscrowed
  <2>6. Handles(doc, event) /\ Phase("save", event.user, event.action, doc[event.user])
    BY <1>3, <2>1, <2>2, <2>4, <2>5, EditIsHandled DEF LifeEvents
  <2> HIDE DEF doc
  <2> QED
    BY <1>3, <2>3, <2>6, BeginIsAlone
<1>4. ASSUME NEW n \in Names, NEW to \in Scopes, NEW by \in Names \cup {None},
             GrantShare(p, n, to, by)
      PROVE  FInv'
  <2> DEFINE share == [to |-> to, id |-> IdOf(users, to)]
             shares == users[n].shares \cup {share}
  <2>1. /\ Free(p) /\ Exists(users, n)
        /\ Begin(p, "save", [users EXCEPT ![n].shares = shares],
                 Event("share.granted", n, to, IF by = None THEN n ELSE by))
    BY <1>1, <1>4 DEF GrantShare, Registry
  <2>2. share \in Share /\ share.to = to
    BY <1>1 DEF Share, IdOf, Exists, Registry, Account
  <2> HIDE DEF share
  <2>3. Targets(shares) = SharedTo(users[n]) \cup {to}
    BY <2>2 DEF SharedTo, Targets
  <2>4. shares \in SUBSET Share
    BY <1>2, <2>1, <2>2 DEF Account
  <2> HIDE DEF shares
  <2> QED
    BY <1>3, <2>1, <2>3, <2>4
<1>5. ASSUME NEW n \in Names, NEW to \in Scopes, NEW by, Free(p), Exists(users, n),
             Begin(p, "save", WithoutShare(users, n, to), Event("share.revoked", n, to, by))
      PROVE  FInv'
  <2> DEFINE shares == {s \in users[n].shares : s.to # to}
  <2>1. Begin(p, "save", [users EXCEPT ![n].shares = shares], Event("share.revoked", n, to, by))
    BY <1>1, <1>5 DEF WithoutShare, Registry
  <2>2. Targets(shares) = SharedTo(users[n]) \ {to}
    BY DEF SharedTo, Targets
  <2>3. shares \in SUBSET Share
    BY <1>2, <1>5 DEF Account
  <2> HIDE DEF shares
  <2> QED
    BY <1>3, <1>5, <2>1, <2>2, <2>3
<1> QED
  BY <1>4, <1>5 DEF Sharing, RevokeShare, GuardianRevokeShare

\* A step of the one running command, and its end.
LEMMA StepIsAlone ==
  ASSUME IInv, FInv, NEW p \in Procs, pc[p] # "idle", NEW next, Step(p, next)
  PROVE  /\ pc'[p] = next /\ \A q \in Procs \ {p} : pc[q] = "idle" /\ pc'[q] = "idle"
         /\ next # "idle" => run' = run
         /\ Alone'
BY DEF Step, FInv, Alone, IInv, TypeOK

\* The tailnet commands and the deaths of commands leave accounts alone.
LEMMA TailnetAgrees ==
  ASSUME Serial = TRUE, IInv, FInv, NEW p \in Procs, Tailnet(p) \/ SaveTailnet(p) \/ Crash(p)
  PROVE  FInv'
<1>1. CASE Tailnet(p)
  <2>1. PICK tdoc, event : Free(p) /\ BeginTailnet(p, tdoc, event)
    BY <1>1 DEF Tailnet, Onboard, Claim, Drop
  <2>2. \A q \in Procs : pc[q] = "idle"
    BY <2>1 DEF Free
  <2>3. /\ UNCHANGED <<users, dirs, ring, granted, burnt, crashes>>
        /\ \A q \in Procs : pc'[q] = IF q = p THEN "tsave" ELSE "idle"
    BY <2>1, <2>2 DEF BeginTailnet, IInv, TypeOK
  <2>4. Alone' /\ \A q \in Procs : pc'[q] \notin Writing
    BY <2>3 DEF Alone, Writing
  <2>5. crashes = 0 => \A n \in Names : Whole(n)
    BY <2>2, WholeWhenIdle DEF Writing
  <2> QED
    BY <2>3, <2>4, <2>5, IdleKeeps
<1>2. CASE SaveTailnet(p) \/ Crash(p)
  <2>1. /\ pc[p] # "idle" /\ Step(p, "idle") /\ UNCHANGED <<users, dirs, ring, granted, burnt>>
        /\ (crashes' = crashes /\ pc[p] = "tsave") \/ crashes' = crashes + 1
    BY <1>2 DEF SaveTailnet, Crash
  <2>2. /\ Alone' /\ \A q \in Procs : pc'[q] \notin Writing
        /\ \A q \in Procs \ {p} : pc[q] \notin Writing
    BY <2>1, StepIsAlone DEF Writing
  <2>3. pc[p] = "tsave" /\ crashes = 0 => \A n \in Names : Whole(n)
    BY <2>2, WholeWhenIdle DEF Writing
  <2>4. crashes \in Nat
    BY DEF IInv, TypeOK
  <2> QED
    BY <2>1, <2>2, <2>3, <2>4, IdleKeeps
<1> QED
  BY <1>1, <1>2

\* A further write of a creation or a deletion: it touches the files of one account.
LEMMA LifeStep ==
  ASSUME IInv, FInv, NEW p \in Procs, pc[p] \in Writing, NEW n \in Names,
         run[p].event.user = n, run[p].event.action \in LifeEvents,
         NEW next \in Writing, Step(p, next), UNCHANGED <<users, granted, crashes>>,
         \A m \in Names \ {n} : dirs'[m] = dirs[m] /\ ring'[m] = ring[m],
         EscrowAsPromised', KeyDiesFirst',
         NEW action, action = run[p].event.action, NEW rec, rec = run[p].doc[n],
         Phase(next, n, action, rec)'
  PROVE  FInv'
<1>1. pc[p] # "idle"
  BY DEF Writing
<1>2. /\ Alone' /\ pc'[p] = next /\ run' = run
      /\ \A q \in Procs \ {p} : pc[q] = "idle" /\ pc'[q] = "idle"
  BY <1>1, StepIsAlone DEF Writing
<1>3. AllEscrowed' /\ PairsAreCurrent'
  BY DEF FInv, AllEscrowed, PairsAreCurrent, Exists, ChildEscrowed, SharedTo
<1>4. PICK doc, event : doc = run[p].doc /\ event = run[p].event
  OBVIOUS
<1>5. Handles(doc, event)
  BY <1>4 DEF FInv, Commits
<1>6. Handles(doc, event)'
  BY <1>5 DEF Handles, Exists
<1>7. Commits(p)'
  BY <1>2, <1>4, <1>6 DEF Commits
<1>8. \A q \in Procs : Commits(q)'
  BY <1>2, <1>7 DEF Commits, Writing
<1>9. WholeUnlessInTransit'
  <2> SUFFICES ASSUME crashes' = 0, NEW m \in Names, \A q \in Procs : ~InTransit(q, m)'
               PROVE  Whole(m)'
    BY DEF WholeUnlessInTransit
  <2>1. m # n
    BY <1>2 DEF InTransit
  <2>2. Whole(m)
    BY <1>2, <2>1 DEF FInv, WholeUnlessInTransit, InTransit, Writing
  <2> QED
    BY <2>1, <2>2 DEF Whole, Exists
<1> QED
  BY <1>2, <1>3, <1>8, <1>9 DEF FInv, KeysAsPromised

\* The writes of a creation and of a deletion, up to the registry.
LEMMA FilesAgree ==
  ASSUME IInv, FInv, NEW p \in Procs,
         MakeVaultDir(p) \/ CreateKey(p) \/ BurnKey(p) \/ WipeVaultDir(p)
  PROVE  FInv'
<1>1. pc[p] \in Writing /\ pc[p] # "idle" /\ UNCHANGED <<users, granted, crashes>>
  BY DEF MakeVaultDir, CreateKey, BurnKey, WipeVaultDir, Writing
<1>0. PICK n \in Names : n = run[p].event.user
  BY <1>1 DEF IInv, MemoryIsStorable, EventType
<1>2. PICK action, rec :
        /\ n \in Names /\ n = run[p].event.user
        /\ action = run[p].event.action /\ rec = run[p].doc[n]
  BY <1>0
<1>3. /\ Phase(pc[p], n, action, rec)
      /\ action = "user.created" => ~Exists(users, n) /\ Exists(run[p].doc, n)
      /\ action = "user.deleted" => Exists(users, n)
  BY <1>1, <1>2 DEF FInv, Commits, Handles
<1>4. dirs \in [Names -> BOOLEAN] /\ ring \in [Names -> {"none", "live", "escrowed"}]
  BY DEF IInv, TypeOK
<1>5. EscrowAsPromised /\ KeyDiesFirst
  BY DEF FInv, KeysAsPromised
<1>7. ASSUME Step(p, "idle"), UNCHANGED <<dirs, ring, burnt>>, crashes # 0 PROVE FInv'
  <2>1. Alone' /\ \A q \in Procs : pc'[q] \notin Writing
    BY <1>1, <1>7, StepIsAlone DEF Writing
  <2> QED
    BY <1>1, <1>7, <2>1, IdleKeeps
<1>9. CASE MakeVaultDir(p)
  <2>1. /\ pc[p] = "mkdir" /\ UNCHANGED <<ring, burnt>>
        /\ \/ dirs[n] /\ Step(p, "idle") /\ UNCHANGED dirs
           \/ Step(p, "mkkey") /\ dirs' = [dirs EXCEPT ![n] = TRUE]
    BY <1>2, <1>9 DEF MakeVaultDir
  <2>2. action = "user.created" /\ (crashes = 0 => dirs[n] = FALSE /\ ring[n] = "none")
    BY <1>3, <2>1 DEF Phase
  <2>3. CASE dirs[n] /\ Step(p, "idle") /\ UNCHANGED dirs
    BY <1>7, <2>1, <2>2, <2>3
  <2>4. CASE Step(p, "mkkey") /\ dirs' = [dirs EXCEPT ![n] = TRUE]
    <3>1. dirs'[n] = TRUE /\ \A m \in Names \ {n} : dirs'[m] = dirs[m]
      BY <1>4, <2>4
    <3>2. EscrowAsPromised' /\ KeyDiesFirst'
      BY <1>1, <1>5, <2>1, <3>1 DEF EscrowAsPromised, KeyPromised, KeyDiesFirst, Exists
    <3>3. Phase("mkkey", n, action, rec)'
      BY <1>1, <2>1, <2>2, <3>1 DEF Phase
    <3>4. \A m \in Names \ {n} : dirs'[m] = dirs[m] /\ ring'[m] = ring[m]
      BY <2>1, <3>1
    <3> QED
      BY <1>1, <1>2, <2>2, <2>4, <3>2, <3>3, <3>4, LifeStep DEF Writing, LifeEvents
  <2> QED
    BY <2>1, <2>3, <2>4
<1>10. CASE CreateKey(p)
  <2>1. /\ pc[p] = "mkkey" /\ UNCHANGED dirs
        /\ \/ ring[n] # "none" /\ Step(p, "idle") /\ UNCHANGED <<ring, burnt>>
           \/ Step(p, "save") /\ ring' = [ring EXCEPT ![n] = KeyFor(rec)] /\ burnt' = burnt \ {n}
    BY <1>2, <1>10 DEF CreateKey
  <2>2. action = "user.created" /\ dirs[n] = TRUE /\ (crashes = 0 => ring[n] = "none")
    BY <1>3, <2>1 DEF Phase
  <2>3. CASE ring[n] # "none" /\ Step(p, "idle") /\ UNCHANGED <<ring, burnt>>
    BY <1>7, <2>1, <2>2, <2>3
  <2>4. CASE Step(p, "save") /\ ring' = [ring EXCEPT ![n] = KeyFor(rec)] /\ burnt' = burnt \ {n}
    <3>1. ring'[n] = KeyFor(rec) /\ \A m \in Names \ {n} : ring'[m] = ring[m]
      BY <1>4, <2>4
    <3>2. EscrowAsPromised' /\ KeyDiesFirst'
      BY <1>1, <1>3, <1>5, <2>1, <2>2, <2>4, <3>1 DEF EscrowAsPromised, KeyPromised, KeyDiesFirst, Exists
    <3>3. Phase("save", n, action, rec)'
      BY <1>1, <2>1, <2>2, <2>4, <3>1 DEF Phase
    <3>4. \A m \in Names \ {n} : dirs'[m] = dirs[m] /\ ring'[m] = ring[m]
      BY <2>1, <3>1
    <3> QED
      BY ZenonT(60), <1>1, <1>2, <2>2, <2>4, <3>2, <3>3, <3>4, LifeStep DEF Writing, LifeEvents
  <2> QED
    BY <2>1, <2>3, <2>4
<1>11. CASE BurnKey(p)
  <2>1. /\ pc[p] = "burn" /\ UNCHANGED dirs
        /\ \/ ring[n] = "none" /\ Step(p, "idle") /\ UNCHANGED <<ring, burnt>>
           \/ Step(p, "wipe") /\ ring' = [ring EXCEPT ![n] = "none"] /\ burnt' = burnt \cup {n}
    BY <1>2, <1>11 DEF BurnKey
  <2>2. action = "user.deleted" /\ (crashes = 0 => dirs[n] = TRUE /\ ring[n] # "none")
    BY <1>3, <2>1 DEF Phase
  <2>3. CASE ring[n] = "none" /\ Step(p, "idle") /\ UNCHANGED <<ring, burnt>>
    BY <1>7, <2>1, <2>2, <2>3
  <2>4. CASE Step(p, "wipe") /\ ring' = [ring EXCEPT ![n] = "none"] /\ burnt' = burnt \cup {n}
    <3>1. ring'[n] = "none" /\ \A m \in Names \ {n} : ring'[m] = ring[m]
      BY <1>4, <2>4
    <3>2. EscrowAsPromised' /\ KeyDiesFirst'
      BY <1>1, <1>5, <2>1, <2>4, <3>1 DEF EscrowAsPromised, KeyPromised, KeyDiesFirst, Exists
    <3>3. Phase("wipe", n, action, rec)'
      BY <1>1, <2>1, <2>2, <3>1 DEF Phase
    <3>4. \A m \in Names \ {n} : dirs'[m] = dirs[m] /\ ring'[m] = ring[m]
      BY <2>1, <3>1
    <3> QED
      BY ZenonT(60), <1>1, <1>2, <2>2, <2>4, <3>2, <3>3, <3>4, LifeStep DEF Writing, LifeEvents
  <2> QED
    BY <2>1, <2>3, <2>4
<1>12. CASE WipeVaultDir(p)
  <2>1. /\ pc[p] = "wipe" /\ UNCHANGED <<ring, burnt>> /\ Step(p, "save")
        /\ dirs' = [dirs EXCEPT ![n] = FALSE]
    BY <1>2, <1>12 DEF WipeVaultDir
  <2>2. action = "user.deleted" /\ ring[n] = "none"
    BY <1>3, <2>1 DEF Phase
  <2>3. dirs'[n] = FALSE /\ \A m \in Names \ {n} : dirs'[m] = dirs[m]
    BY <1>4, <2>1
  <2>4. EscrowAsPromised' /\ KeyDiesFirst'
    BY <1>1, <1>5, <2>1, <2>2, <2>3 DEF EscrowAsPromised, KeyPromised, KeyDiesFirst, Exists
  <2>5. Phase("save", n, action, rec)'
    BY <1>1, <2>1, <2>2, <2>3 DEF Phase
  <2>6. \A m \in Names \ {n} : dirs'[m] = dirs[m] /\ ring'[m] = ring[m]
    BY <2>1, <2>3
  <2> QED
    BY ZenonT(60), <1>1, <1>2, <2>1, <2>2, <2>4, <2>5, <2>6, LifeStep DEF Writing, LifeEvents
<1> QED
  BY <1>9, <1>10, <1>11, <1>12

\* The write of the registry: the record, its key, its directory and the grants agree.
LEMMA SaveAgrees == ASSUME IInv, FInv, NEW p \in Procs, SaveUsers(p) PROVE FInv'
<1>1. /\ pc[p] = "save" /\ pc[p] # "idle" /\ Step(p, "idle") /\ users' = run[p].doc
      /\ granted' = GrantedAfter(run[p].event) /\ UNCHANGED <<dirs, ring, burnt, crashes>>
  BY DEF SaveUsers
<1>2. PICK doc \in Registry, event \in EventType :
        doc = run[p].doc /\ event = run[p].event /\ NamesAScope(event)
  BY <1>1 DEF IInv, MemoryIsStorable, StorableDoc, Writing
<1>3. PICK n \in Names : n = event.user
  BY <1>2 DEF EventType
<1>4. Handles(doc, event) /\ Phase("save", n, event.action, doc[n])
  BY <1>1, <1>2, <1>3 DEF FInv, Commits, Writing
<1>5. /\ doc[n] \in Account \cup {None} /\ users \in Registry
      /\ dirs \in [Names -> BOOLEAN] /\ granted \subseteq Names \X Scopes
  BY <1>2 DEF IInv, TypeOK, Registry
<1>6. \A m \in Names \ {n} : users'[m] = users[m]
  BY <1>1, <1>2, <1>3, <1>4 DEF Handles
<1>7. users'[n] = doc[n]
  BY <1>1, <1>2
<1>8. \A q \in Procs : pc'[q] = "idle"
  BY <1>1, StepIsAlone
<1>9. KeysAsPromised' /\ AllEscrowed'
  <2>1. CASE event.action = "user.created"
    <3>1. dirs[n] = TRUE /\ ring[n] = KeyFor(doc[n]) /\ n \notin burnt /\ ChildEscrowed(doc[n])
      BY <1>3, <1>4, <2>1 DEF Phase, Handles
    <3> QED
      BY <1>1, <1>6, <1>7, <3>1 DEF FInv, KeysAsPromised, EscrowAsPromised, KeyPromised, KeyDiesFirst,
         AllEscrowed, ChildEscrowed, Exists, KeyFor
  <2>2. CASE event.action = "user.deleted"
    <3>1. ~Exists(users', n)
      BY <1>3, <1>4, <1>7, <2>2 DEF Handles, Exists
    <3> QED
      BY <1>1, <1>6, <3>1 DEF FInv, KeysAsPromised, EscrowAsPromised, KeyPromised, KeyDiesFirst,
         AllEscrowed, ChildEscrowed, Exists
  <2>3. CASE event.action \notin LifeEvents
    <3>1. Exists(users, n) /\ doc[n].escrowed = users[n].escrowed /\ ChildEscrowed(doc[n])
      BY <1>3, <1>4, <2>3 DEF Handles
    <3> QED
      BY <1>1, <1>6, <1>7, <3>1 DEF FInv, KeysAsPromised, EscrowAsPromised, KeyPromised, KeyDiesFirst,
         AllEscrowed, ChildEscrowed, Exists
  <2> QED
    BY <2>1, <2>2, <2>3 DEF LifeEvents
<1>10. PairsAreCurrent'
  <2>1. granted' = GrantedAfter(event)
    BY <1>1, <1>2
  <2>2. ASSUME NEW m \in Names \ {n}, NEW to \in Scopes
        PROVE  <<m, to>> \in granted' <=> <<m, to>> \in granted
    BY <1>3, <2>1 DEF GrantedAfter
  <2>3. ASSUME Exists(users', n), NEW to \in Scopes
        PROVE  to \in SharedTo(users'[n]) <=> <<n, to>> \in granted'
    <3>1. CASE event.action = "user.created"
      <4>1. SharedTo(users'[n]) = {}
        BY <1>3, <1>4, <1>7, <3>1 DEF Handles, SharedTo
      <4>2. granted' = {g \in granted : g[1] # n}
        BY <1>3, <2>1, <3>1 DEF GrantedAfter
      <4> QED
        BY <4>1, <4>2
    <3>2. CASE event.action = "user.deleted"
      BY <1>3, <1>4, <1>7, <2>3, <3>2 DEF Handles, Exists
    <3>3. CASE event.action \notin LifeEvents
      <4>1. /\ Exists(users, n)
            /\ SharedTo(users'[n]) = SharesAfter(SharedTo(users[n]), event)
        BY <1>3, <1>4, <1>7, <3>3 DEF Handles
      <4>2. to \in SharedTo(users[n]) <=> <<n, to>> \in granted
        BY <4>1 DEF FInv, PairsAreCurrent
      <4> QED
        BY <1>3, <2>1, <3>3, <4>1, <4>2 DEF SharesAfter, GrantedAfter, LifeEvents
    <3> QED
      BY <3>1, <3>2, <3>3 DEF LifeEvents
  <2>4. ASSUME NEW m \in Names \ {n}, Exists(users', m), NEW to \in Scopes
        PROVE  to \in SharedTo(users'[m]) <=> <<m, to>> \in granted'
    BY <1>6, <2>2, <2>4 DEF FInv, PairsAreCurrent, Exists
  <2> QED
    BY <2>3, <2>4 DEF PairsAreCurrent
<1>11. WholeUnlessInTransit'
  <2> SUFFICES ASSUME crashes = 0, NEW m \in Names PROVE Whole(m)'
    BY <1>1 DEF WholeUnlessInTransit
  <2>1. CASE m # n \/ event.action \notin LifeEvents
    <3>1. \A q \in Procs : ~InTransit(q, m)
      BY <1>1, <1>2, <1>3, <2>1, StepIsAlone DEF InTransit, Writing
    <3>2. Whole(m)
      BY <3>1 DEF FInv, WholeUnlessInTransit
    <3>3. Exists(users', m) <=> Exists(users, m)
      BY <1>3, <1>4, <1>6, <1>7, <2>1 DEF Handles, Exists
    <3> QED
      BY <1>1, <3>2, <3>3 DEF Whole
  <2>2. CASE m = n /\ event.action = "user.created"
    <3>1. dirs[n] = TRUE /\ ring[n] # "none" /\ Exists(users', n)
      BY <1>3, <1>4, <1>7, <2>2 DEF Handles, Phase, KeyFor, Exists
    <3> QED
      BY <1>1, <2>2, <3>1 DEF Whole
  <2>3. CASE m = n /\ event.action = "user.deleted"
    <3>1. dirs[n] = FALSE /\ ring[n] = "none" /\ ~Exists(users', n)
      BY <1>3, <1>4, <1>7, <2>3 DEF Handles, Phase, Exists
    <3> QED
      BY <1>1, <2>3, <3>1 DEF Whole
  <2> QED
    BY <2>1, <2>2, <2>3 DEF LifeEvents
<1> QED
  BY <1>8, <1>9, <1>10, <1>11 DEF FInv, Alone, Commits, Writing

\* Every step of the one running command keeps it.
LEMMA AgreementIsPreserved == Serial = TRUE /\ IInv /\ FInv /\ [Next]_vars => FInv'
<1> SUFFICES ASSUME Serial = TRUE, IInv, FInv, [Next]_vars PROVE FInv'
  OBVIOUS
<1>1. CASE Next
  BY <1>1, AccountsAgree, SharingAgrees, TailnetAgrees, FilesAgree, SaveAgrees
     DEF Next, Writes
<1>2. CASE UNCHANGED vars
  <2>1. UNCHANGED <<users, dirs, ring, pc, run, granted, burnt, crashes>>
    BY <1>2 DEF vars
  <2>2. KeysAsPromised' /\ AllEscrowed' /\ PairsAreCurrent' /\ Alone' /\ WholeUnlessInTransit'
    BY <2>1 DEF FInv, KeysAsPromised, EscrowAsPromised, KeyPromised, KeyDiesFirst, AllEscrowed,
       ChildEscrowed, PairsAreCurrent, SharedTo, Alone, WholeUnlessInTransit, Whole, InTransit,
       Exists
  <2>3. ASSUME NEW q \in Procs PROVE Commits(q)'
    BY <2>1 DEF FInv, Commits, Handles, Phase, Exists
  <2> QED
    BY <2>2, <2>3 DEF FInv
<1> QED
  BY <1>1, <1>2

\* The empty vault is in agreement.
LEMMA EmptyVaultAgrees == Init => FInv
<1> SUFFICES ASSUME Init PROVE FInv
  OBVIOUS
<1>1. \A n \in Names : ~Exists(users, n) /\ ring[n] = "none" /\ dirs[n] = FALSE
  BY DEF Init, Exists
<1>2. \A p \in Procs : pc[p] = "idle"
  BY DEF Init
<1>3. KeysAsPromised /\ AllEscrowed /\ PairsAreCurrent
  BY <1>1 DEF KeysAsPromised, EscrowAsPromised, KeyPromised, KeyDiesFirst, AllEscrowed, PairsAreCurrent
<1>4. Alone /\ \A p \in Procs : Commits(p)
  BY <1>2 DEF Alone, Commits, Writing
<1>5. WholeUnlessInTransit
  BY <1>1 DEF WholeUnlessInTransit, Whole
<1> QED
  BY <1>3, <1>4, <1>5 DEF FInv

\* What FInv says in the words of the runs.
LEMMA AgreementImplies ==
  IInv /\ FInv => KeysAsPromised /\ SharesAreCurrent /\ AccountsAreWhole
<1> SUFFICES ASSUME IInv, FInv PROVE KeysAsPromised /\ SharesAreCurrent /\ AccountsAreWhole
  OBVIOUS
<1>1. \A n \in Names : Exists(users, n) => users[n] \in Account
  BY DEF IInv, TypeOK, Registry, Exists
<1>2. SharesAreCurrent
  <2> SUFFICES ASSUME NEW n \in Names, Exists(users, n)
               PROVE  SharedTo(users[n]) = {g[2] : g \in {x \in granted : x[1] = n}}
    BY DEF SharesAreCurrent
  <2>1. SharedTo(users[n]) \subseteq Scopes
    BY <1>1, SharesAreScopes
  <2>2. \A to \in Scopes : to \in SharedTo(users[n]) <=> <<n, to>> \in granted
    BY DEF FInv, PairsAreCurrent
  <2>3. granted \subseteq Names \X Scopes
    BY DEF IInv, TypeOK
  <2>4. ASSUME NEW to \in SharedTo(users[n])
        PROVE  to \in {g[2] : g \in {x \in granted : x[1] = n}}
    <3>1. <<n, to>> \in {x \in granted : x[1] = n}
      BY <2>1, <2>2
    <3> QED
      BY <3>1
  <2>5. ASSUME NEW g \in granted, g[1] = n PROVE g[2] \in SharedTo(users[n])
    <3>1. g = <<n, g[2]>> /\ g[2] \in Scopes
      BY <2>3, <2>5
    <3> QED
      BY <2>2, <3>1
  <2> QED
    BY <2>4, <2>5
<1>3. AccountsAreWhole
  <2> SUFFICES ASSUME crashes = 0, \A p \in Procs : pc[p] = "idle"
               PROVE  /\ \A n \in Names : Exists(users, n) <=> dirs[n]
                      /\ \A x \in Problems :
                           x[1] \in {"no adult guardian", "share to unknown target"}
    BY DEF AccountsAreWhole
  <2>1. ASSUME NEW n \in Names PROVE Whole(n)
    BY WholeWhenIdle DEF Writing
  <2>2. \A n \in Names : Exists(users, n) <=> dirs[n]
    BY <2>1 DEF Whole, IInv, TypeOK
  <2>3. ASSUME NEW n \in Names, Exists(users, n), NEW x \in RecordProblems(n)
        PROVE  x[1] \in {"no adult guardian", "share to unknown target"}
    <3>1. ChildEscrowed(users[n]) /\ ring[n] # "none" /\ dirs[n] = TRUE
      BY <2>1, <2>3 DEF FInv, AllEscrowed, Whole
    <3>2. ~(users[n].tier = "child" /\ ~users[n].escrowed)
      BY <3>1 DEF ChildEscrowed
    <3> DEFINE found(condition, kind) == IF condition THEN {<<kind, n>>} ELSE {}
               unguarded == found(users[n].tier = "child" /\ ~HasAdultGuardian(users[n]),
                                  "no adult guardian")
               unescrowed == found(users[n].tier = "child" /\ ~users[n].escrowed, "not escrowed")
               undirected == found(~dirs[n], "missing directory")
               keyless == found(ring[n] = "none", "no key")
               unknown == found(\E to \in SharedTo(users[n]) \ SpecialScopes : ~Exists(users, to),
                                "share to unknown target")
    <3>3. x \in UNION {unguarded, unescrowed, undirected, keyless, unknown}
      BY <2>3 DEF RecordProblems
    <3>4. unescrowed = {} /\ undirected = {} /\ keyless = {}
      BY <3>1, <3>2
    <3>5. /\ unguarded \subseteq {<<"no adult guardian", n>>}
          /\ unknown \subseteq {<<"share to unknown target", n>>}
      OBVIOUS
    <3> HIDE DEF unguarded, unescrowed, undirected, keyless, unknown
    <3>7. x = <<"no adult guardian", n>> \/ x = <<"share to unknown target", n>>
      BY <3>3, <3>4, <3>5
    <3>8. CASE x = <<"no adult guardian", n>>
      BY <3>8
    <3>9. CASE x = <<"share to unknown target", n>>
      BY <3>9
    <3> QED
      BY <3>7, <3>8, <3>9
  <2>4. ASSUME NEW x \in Problems PROVE \E n \in Names : Exists(users, n) /\ x \in RecordProblems(n)
    BY <2>1 DEF Problems, Whole
  <2> QED
    BY <2>2, <2>3, <2>4
<1> QED
  BY <1>2, <1>3 DEF FInv

\* One command at a time: at every step of a creation and of a deletion, and after every
\* crash, a registered account has its key, with the escrow its record promises, unless a
\* deletion of that account has burned it, and a deletion destroys the key before the files.
THEOREM KeysKeepTheirPromise == Serial = TRUE => (Spec => []KeysAsPromised)
<1> SUFFICES ASSUME Serial = TRUE PROVE Spec => []KeysAsPromised
  OBVIOUS
<1>1. Init => IInv /\ FInv
  BY InitEstablishes, EmptyVaultAgrees
<1>2. IInv /\ [Next]_vars => IInv'
  BY StepPreserves
<1>3. IInv /\ FInv /\ [Next]_vars => FInv'
  BY AgreementIsPreserved
<1>4. IInv /\ FInv => KeysAsPromised
  BY AgreementImplies
<1> QED
  BY <1>1, <1>2, <1>3, <1>4, PTL DEF Spec

\* One command at a time: the shares of a registered account are exactly the grants that
\* were committed and not revoked since; a grant whose command died is not among them.
THEOREM SharesAreTheGrants == Serial = TRUE => (Spec => []SharesAreCurrent)
<1> SUFFICES ASSUME Serial = TRUE PROVE Spec => []SharesAreCurrent
  OBVIOUS
<1>1. Init => IInv /\ FInv
  BY InitEstablishes, EmptyVaultAgrees
<1>2. IInv /\ [Next]_vars => IInv'
  BY StepPreserves
<1>3. IInv /\ FInv /\ [Next]_vars => FInv'
  BY AgreementIsPreserved
<1>4. IInv /\ FInv => SharesAreCurrent
  BY AgreementImplies
<1> QED
  BY <1>1, <1>2, <1>3, <1>4, PTL DEF Spec

\* One command at a time and none dying: between commands an account, its directory and
\* its key exist together or not at all, and vault.verify reports nothing but references
\* to deleted accounts.
THEOREM AccountsStayWhole == Serial = TRUE => (Spec => []AccountsAreWhole)
<1> SUFFICES ASSUME Serial = TRUE PROVE Spec => []AccountsAreWhole
  OBVIOUS
<1>1. Init => IInv /\ FInv
  BY InitEstablishes, EmptyVaultAgrees
<1>2. IInv /\ [Next]_vars => IInv'
  BY StepPreserves
<1>3. IInv /\ FInv /\ [Next]_vars => FInv'
  BY AgreementIsPreserved
<1>4. IInv /\ FInv => AccountsAreWhole
  BY AgreementImplies
<1> QED
  BY <1>1, <1>2, <1>3, <1>4, PTL DEF Spec
=============================================================================
