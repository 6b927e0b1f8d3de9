------------------------------- MODULE DirBurn -------------------------------
(***************************************************************************)
(* The whole-directory burn (flamethrower/dirburn.py): every file found in *)
(* the target is sealed and burned with the per-file primitive, then the   *)
(* original is overwritten and unlinked; directories, a manifest and a     *)
(* verify pass follow.                                                     *)
(*                                                                         *)
(* tree[p] is what a program reads at path p, a version: versions are      *)
(* numbered as they are written, and stand for the bytes.  Paths that are  *)
(* names of the same file read the same; the file is known by its first    *)
(* version.  One file is outside the target.  The burn works from the list *)
(* it made, and examined for links, at its start, while other programs     *)
(* write into the target (Edit) and link its names (AddLink), and a second *)
(* program uses the same fileburn directory (Cli).                         *)
(***************************************************************************)
EXTENDS FileBurn

CONSTANTS
  NumPaths,    \* paths in the target, in the order they are sorted
  CliNames,    \* names the fileburn command line uses
  MaxBurns,    \* bound on the directory burns started
  MaxEdits,    \* bound on writes and links into the target by other programs
  MaxCrashes   \* bound on deaths of the directory burn

Paths == 1..NumPaths
Beyond == NumPaths + 1    \* the file outside the target
Versions == 1..(Beyond + MaxEdits)
Readable == Versions \cup {Scrap}

\* dirburn-<burn id>-<index>; a burn id is never drawn twice.
NameOf(burn, p) == <<burn, p>>
BurnNames == (1..MaxBurns) \X Paths

ASSUME DirBurnAssumption ==
  /\ NumPaths \in Nat /\ MaxBurns \in Nat /\ MaxEdits \in Nat /\ MaxCrashes \in Nat
  /\ Names = BurnNames \cup CliNames
  /\ BurnNames \cap CliNames = {}  \* the command line works on names of its own
  /\ {"dirburn", "cli"} = Callers

VARIABLES
  tree,      \* the target: the version at each path, Scrap or Missing
  file,      \* the file each path leads to
  soft,      \* the paths that are symlinks to the file outside
  outside,   \* the version of that file
  standing,  \* the target directory exists
  walk,      \* the directory burn that runs
  manifests, \* manifests/*.json: sets of <<path, version, key>>
  burns, edits, crashes,
  \* history
  linked     \* the burns begun, and one, when a link of this path or to it was last made; or 0

target == <<file, soft, outside, linked>>
wvars == <<tree, target, standing, walk, manifests, burns, edits, crashes>>
vars == <<fvars, wvars>>

NoWalk == [at |-> "idle", burn |-> 0, todo |-> {}, entries |-> {}, path |-> 0, version |-> 0]

Init ==
  /\ FInit
  /\ tree = [p \in Paths |-> p] /\ file = tree
  /\ soft = {} /\ outside = Beyond
  /\ standing = TRUE
  /\ linked = [p \in Paths |-> 0]
  /\ walk = NoWalk
  /\ manifests = {}
  /\ burns = 0 /\ edits = 0 /\ crashes = 0

Present == {p \in Paths : tree[p] # Missing}
First(ps) == CHOOSE p \in ps : \A q \in ps : p <= q
Step(at) == walk' = [walk EXCEPT !.at = at]
Die == walk' = NoWalk

\* What is written to a file is found under each of its names.
WriteTo(f, version) ==
  /\ tree' = [p \in Paths |-> IF p \in Present /\ file[p] = f THEN version ELSE tree[p]]
  /\ outside' = IF f = Beyond THEN version ELSE outside

\* Mutant: what is found is not examined.
RefusedIfGone == ~standing

\* A symlink anywhere, or two names of one file, refuses the burn before anything dies.
Refused ==
  \/ ~standing
  \/ soft \cap Present # {}
  \/ \E p, q \in Present : p # q /\ file[p] = file[q]

BurnDirectory ==
  /\ walk.at = "idle" /\ Returned("dirburn")
  /\ ~Refused
  /\ burns < MaxBurns
  /\ burns' = burns + 1
  /\ walk' = [NoWalk EXCEPT !.at = "next", !.burn = burns + 1, !.todo = Present]
  /\ UNCHANGED <<fvars, tree, target, standing, manifests, edits, crashes>>

Here == First(walk.todo)

\* Open and read the file; a file that vanished ends the burn with an OSError.
ReadFile ==
  /\ walk.at = "next" /\ walk.todo # {}
  /\ IF tree[Here] = Missing
     THEN Die
     ELSE walk' = [walk EXCEPT !.at = "read", !.path = Here, !.version = tree[Here],
                               !.todo = @ \ {Here}]
  /\ UNCHANGED <<fvars, tree, target, standing, manifests, burns, edits, crashes>>

SealFile ==
  /\ walk.at = "read"
  /\ Seal("dirburn", NameOf(walk.burn, walk.path), walk.version, FALSE)
  /\ Step("seal")
  /\ UNCHANGED <<tree, target, standing, manifests, burns, edits, crashes>>

\* Mutant: the sealed copy is not burned.
LeaveSealed ==
  /\ walk.at = "seal" /\ call["dirburn"].at = "done"
  /\ Step("burn")
  /\ UNCHANGED <<fvars, tree, target, standing, manifests, burns, edits, crashes>>

\* burn refuses a name that another program's files.json no longer lists.
BurnSealed ==
  /\ walk.at = "seal" /\ call["dirburn"].at = "done"
  /\ IF registry[NameOf(walk.burn, walk.path)] = Missing
     THEN Die /\ Abandon("dirburn") /\ UNCHANGED <<disk, registry, content, certs, logged, raced>>
     ELSE BeginBurn("dirburn", NameOf(walk.burn, walk.path)) /\ Step("burn")
  /\ UNCHANGED <<tree, target, standing, manifests, burns, edits, crashes>>

\* Mutant: the originals are left for later.
LeaveOriginal ==
  /\ walk.at = "burn" /\ call["dirburn"].at \in {"done", "failed"}
  /\ Step("next")
  /\ Abandon("dirburn")
  /\ UNCHANGED <<disk, registry, content, certs, logged, raced,
                 tree, target, standing, manifests, burns, edits, crashes>>

\* The sealed copy is certified; now the original is overwritten: whatever file the path
\* leads to when it is opened again.
OverwriteOriginal ==
  /\ walk.at = "burn" /\ call["dirburn"].at \in {"done", "failed"}
  /\ IF call["dirburn"].at = "failed" \/ tree[walk.path] = Missing
     THEN Die /\ UNCHANGED <<tree, outside>>
     ELSE Step("unlink") /\ WriteTo(file[walk.path], Scrap)
  /\ Abandon("dirburn")
  /\ UNCHANGED <<disk, registry, content, certs, logged, raced,
                 file, soft, linked, standing, manifests, burns, edits, crashes>>

Listed ==
  [walk EXCEPT !.at = "next",
                       !.entries = @ \cup {<<walk.path, walk.version>>}]

\* Only this name goes.
UnlinkOriginal ==
  /\ walk.at = "unlink"
  /\ IF tree[walk.path] = Missing
     THEN Die /\ UNCHANGED tree
     ELSE tree' = [tree EXCEPT ![walk.path] = Missing] /\ walk' = Listed
  /\ UNCHANGED <<fvars, target, standing, manifests, burns, edits, crashes>>

\* Mutant: shutil.rmtree instead of rmdir.
RemoveTree ==
  /\ walk.at = "next" /\ walk.todo = {}
  /\ standing' = FALSE
  /\ tree' = [p \in Paths |-> Missing]
  /\ Step("manifest")
  /\ UNCHANGED <<fvars, target, manifests, burns, edits, crashes>>

\* rmdir: a directory with something in it is left standing.
RemoveDirs ==
  /\ walk.at = "next" /\ walk.todo = {}
  /\ standing' = (Present # {})
  /\ Step("manifest")
  /\ UNCHANGED <<fvars, tree, target, manifests, burns, edits, crashes>>

WriteManifest ==
  /\ walk.at = "manifest"
  /\ manifests' = manifests \cup {walk.entries}
  /\ Step("verify")
  /\ UNCHANGED <<fvars, tree, target, standing, burns, edits, crashes>>

\* verify_manifest: a listed path that exists.
Survivors(entries) == {e \in entries : tree[e[1]] # Missing}

\* The verify pass only reports: the manifest stays whatever it finds.
VerifyManifest ==
  /\ walk.at = "verify"
  /\ Die
  /\ UNCHANGED <<fvars, tree, target, standing, manifests, burns, edits, crashes>>

-----------------------------------------------------------------------------
(* The surroundings.                                                        *)

Disturb ==
  /\ standing
  /\ edits < MaxEdits
  /\ edits' = edits + 1
  /\ UNCHANGED <<fvars, standing, walk, manifests, burns, crashes>>

NextVersion == Beyond + edits + 1

\* Another program writes to the file at p, or puts a new one there.
Edit(p) ==
  /\ Disturb
  /\ \/ p \in Present /\ WriteTo(file[p], NextVersion) /\ UNCHANGED <<file, soft>>
     \/ /\ tree' = [tree EXCEPT ![p] = NextVersion] /\ file' = [file EXCEPT ![p] = NextVersion]
        /\ soft' = soft \ {p} /\ UNCHANGED outside
  /\ UNCHANGED linked

\* Another program makes p a second name of the file at q, or a name of the file outside or
\* a symlink to it.
AddLink(p) ==
  /\ Disturb
  /\ \/ \E q \in Present \ {p} :
          /\ tree' = [tree EXCEPT ![p] = tree[q]] /\ file' = [file EXCEPT ![p] = file[q]]
          /\ soft' = soft \ {p}
          /\ linked' = [linked EXCEPT ![p] = burns + 1, ![q] = burns + 1]
     \/ /\ tree' = [tree EXCEPT ![p] = outside] /\ file' = [file EXCEPT ![p] = Beyond]
        /\ soft' \in {soft \ {p}, soft \cup {p}}
        /\ linked' = [linked EXCEPT ![p] = burns + 1]
  /\ UNCHANGED outside

\* The command line of fileburn.py on a name of its own.
Cli ==
  /\ Returned("cli")
  /\ \E n \in CliNames : Seal("cli", n, 0, TRUE) \/ BeginBurn("cli", n)
  /\ UNCHANGED wvars

Call(self) == FileStep(self) /\ UNCHANGED wvars

Crash ==
  /\ walk.at # "idle"
  /\ crashes < MaxCrashes
  /\ crashes' = crashes + 1
  /\ Die /\ Abandon("dirburn")
  /\ UNCHANGED <<disk, registry, content, certs, logged, raced,
                 tree, target, standing, manifests, burns, edits>>

CrashCli ==
  /\ ~Returned("cli")
  /\ crashes < MaxCrashes
  /\ crashes' = crashes + 1
  /\ Abandon("cli")
  /\ UNCHANGED <<disk, registry, content, certs, logged, raced,
                 tree, target, standing, walk, manifests, burns, edits>>

Next ==
  \/ BurnDirectory \/ ReadFile \/ SealFile \/ BurnSealed
  \/ OverwriteOriginal \/ UnlinkOriginal
  \/ RemoveDirs \/ WriteManifest \/ VerifyManifest
  \/ Call("dirburn") \/ Cli \/ Call("cli")
  \/ (\E p \in Paths : Edit(p) \/ AddLink(p))
  \/ Crash \/ CrashCli

Spec == Init /\ [][Next]_vars

-----------------------------------------------------------------------------
(* Properties                                                               *)

CertifiedVersions == {content[k] : k \in Certified} \cap Versions

\* No key is left that no burn will ever find: a key that can be read is listed in
\* files.json or its seal is still running.  A death amid a seal, or a save that undid
\* another program's entry, leaves a key nobody knows of (fileburn.py seal, burn).
NoOrphanKeys ==
  (crashes = 0 /\ ~raced) => \A k \in Live : (\E n \in Names : registry[n] = k)
                                            \/ k \in BeingSealed

\* The registry and the keys agree: a listed name opens, and a key that can be read is
\* listed (fileburn.py seal, unseal, burn).
RegistryMatchesKeys == RegisteredOpens /\ NoOrphanKeys

NeverLinked == {p \in Paths : linked[p] = 0}

\* A manifest tells the truth for good: what it lists was certified, that version of the
\* file is not at its path again unless somebody linked it there, and a survivor that
\* verify_manifest reports was put there later by another program (dirburn.py
\* burn_directory, verify_manifest).
ManifestIsTrue ==
  \A m \in manifests :
     /\ \A e \in m : e[2] # Scrap =>
          /\ e[1] \in NeverLinked => tree[e[1]] # e[2]
          /\ e[2] \in CertifiedVersions
     /\ Cardinality(Survivors(m)) <= edits

\* The certificate of a file is written before the original is removed, so a burn that
\* dies leaves a certificate for a file that still exists: at most one per burn, and none
\* for a burn that got as far as its manifest.  A file with two names may outlive its
\* certificate also when the name the burn knows comes to lead to another one.
CertifiedSurvivors ==
  Cardinality({p \in NeverLinked : tree[p] \in CertifiedVersions})
     <= burns - Cardinality(manifests)

\* The papers of a directory burn are true: its manifest for good, and the certificates of
\* its files but for the one a burn died over (dirburn.py burn_directory).
PapersAreTrue == ManifestIsTrue /\ CertifiedSurvivors

\* A link of this path, or to it, was made after the burn examined it.
LinkedSince(p) == linked[p] = burns + 1

\* Whatever other programs write meanwhile, the burn destroys only at the path whose content
\* it has just sealed, burned and certified: files it did not list at its start survive, and
\* so does the directory they are in.  It writes to whatever file that path leads to by
\* then.  So another name in the target loses its content only if a link of one of the two
\* was made after the target was examined, and the file outside only under such a link, or
\* as the file of a listed path, which nothing looks for (dirburn.py _enumerate,
\* burn_directory).
OnlyListedFilesDie ==
  [][walk' # walk =>
       /\ \A p \in Paths : (tree[p] \in Versions /\ tree'[p] \in {Scrap, Missing}) =>
            /\ p = walk.path \/ LinkedSince(p) \/ LinkedSince(walk.path)
            /\ walk.version \in CertifiedVersions \cup {Scrap} /\ standing'
       /\ (outside \in Versions /\ outside' = Scrap) =>
            /\ LinkedSince(walk.path) \/ walk.path \notin soft
            /\ walk.version \in CertifiedVersions \cup {Scrap}]_vars
=============================================================================
