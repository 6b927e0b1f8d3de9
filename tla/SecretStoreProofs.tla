-------------------------- MODULE SecretStoreProofs --------------------------
(***************************************************************************)
(* Proofs about SecretStore, for any names, any number of commands at once *)
(* and any crashes: what is listed can be read, what was deleted is gone,  *)
(* and nothing outlives the account.                                       *)
(***************************************************************************)
EXTENDS SecretStore, TLAPS

USE SecretStoreAssumption

Storing == {"add", "rotate"}
Working == Writing \cup {"list"}

(* The strengthening.                                                       *)

\* A command is at a step of its own, and holds a key that existed.
CallOk(c) ==
  /\ call[c].op = "none" => call[c].at = "idle"
  /\ call[c].op \in Storing => call[c].at \in {"load", "key", "write", "replace", "save"}
  /\ call[c].op = "delete" => call[c].at \in {"load", "overwrite", "unlink", "save"}
  /\ call[c].op = "list" => call[c].at = "load"
  /\ call[c].op = "delete_user" => call[c].at \in Deleting
  /\ call[c].op \in Working => call[c].name \in Names /\ call[c].pid \in Pids
  /\ call[c].key <= lives
  /\ call[c].at \in {"write", "replace"} => call[c].key # 0

\* Commands that overlap are remembered.
Overlaps ==
  /\ \A c, d \in Callers :
       c # d /\ call[c].op \in Writing /\ call[d].op \in Writing =>
         raced /\ (call[c].name = call[d].name => call[c].name \in contested)
  /\ \A c \in Callers :
       (call[c].op \in Working /\ (~registered \/ \E d \in Callers : call[d].op = "delete_user")) =>
         raced /\ (call[c].op \in Writing => call[c].name \in contested)
  /\ \A c \in Callers :
       call[c].op = "delete_user" =>
         registered /\ key = 0 /\ \A d \in Callers \ {c} : call[d].op # "delete_user"

\* Nobody stores a deleted secret again, and a deletion that is about to be reported is done.
DeletionsHold ==
  /\ \A n \in deleted \ contested :
       ~Sealed(n) /\ \A c \in Callers : call[c].op \in Storing => call[c].name # n
  /\ \A c \in Callers :
       call[c].op = "delete" /\ call[c].at = "save" /\ call[c].name \notin contested =>
         ~Sealed(call[c].name)

\* Once the tree is wiped nothing comes back, and a directory made anew is empty.
TreeIsGone ==
  /\ (~registered \/ \E c \in Callers : call[c].at = "deregister") =>
       /\ \A n \in Names \ contested : ~Sealed(n) /\ \A d \in drafts : d.name # n
       /\ standing => raced
  /\ ~standing => index = {} /\ drafts = {} /\ \A n \in Names : ~Sealed(n)

\* As long as no two commands overlapped, a command has the index as it is and the key as it
\* is, and every name of the index has its file, up to a deletion that touched it.
IndexIsKept ==
  ~raced =>
    /\ \A c \in Callers :
         /\ call[c].op \in Writing /\ call[c].at # "load" => call[c].loaded = index
         /\ call[c].op \in Storing /\ call[c].at \in {"write", "replace", "save"} =>
              call[c].key = key /\ key # 0
         /\ call[c].op \in Storing /\ call[c].at = "save" => Readable(call[c].name)
    /\ key # 0 =>
         \A n \in index :
           \/ Readable(n) \/ n \in halfDone
           \/ \E c \in Callers :
                call[c].op = "delete" /\ call[c].name = n /\ call[c].at \in {"unlink", "save"}

\* A draft belongs to a command that is about to rename it, or a death left it.
DraftsAreHeld ==
  \A d \in drafts :
     d \in litter \/ \E c \in Callers : call[c].op \in Storing /\ call[c].at = "replace" /\ d = Draft(c)

IInv ==
  /\ TypeOK
  /\ \A c \in Callers : CallOk(c)
  /\ Overlaps /\ DeletionsHold /\ TreeIsGone /\ IndexIsKept /\ DraftsAreHeld

-----------------------------------------------------------------------------
(* The steps, one lemma each                                                *)

FileType == (0..lives) \cup {Scrambled}

LEMMA TypesUnfold ==
  ASSUME IInv
  PROVE  /\ call \in [Callers -> CallType]
         /\ file \in [Names -> FileType]
         /\ lives \in Nat /\ lives >= 1 /\ lives <= MaxLives /\ Scrambled \in Nat
         /\ index \in SUBSET Names /\ deleted \in SUBSET Names
         /\ drafts \in SUBSET DraftType /\ litter \in SUBSET DraftType
BY DEF IInv, TypeOK, FileType, DraftType, Scrambled

LEMMA NoCallIsTyped == NoCall \in CallType /\ NoCall.op = "none" /\ NoCall.at = "idle" /\ NoCall.key = 0
BY DEF NoCall, CallType


\* What the strengthening says of the steps, and of a command that works on a secret while
\* others run.
LEMMA Steps ==
  ASSUME IInv, NEW c \in Callers
  PROVE  /\ call[c].op \in Writing => call[c].name \in Names
         /\ call[c].at = "deregister" => call[c].op = "delete_user"
         /\ call[c].op = "delete_user" => registered /\ key = 0
  BY TypesUnfold DEF IInv, CallOk, Overlaps, CallType, Working, Writing, Storing, Deleting

LEMMA Rivals ==
  ASSUME IInv, NEW c \in Callers, call[c].op \in Working
  PROVE  /\ ~registered \/ (\E d \in Callers : call[d].op = "delete_user" \/ call[d].at = "deregister") =>
              raced /\ (call[c].op \in Writing => call[c].name \in contested)
         /\ \A d \in Callers \ {c} : call[c].op \in Writing /\ call[d].op \in Writing =>
              raced /\ (call[d].name = call[c].name => call[c].name \in contested)
<1>1. \A d \in Callers : call[d].at = "deregister" => call[d].op = "delete_user"
  BY Steps
<1>2. Overlaps
  BY DEF IInv
<1> QED
  BY <1>1, <1>2 DEF Overlaps

\* A command that ends leaves the others as they are.
LEMMA ReturnKeeps ==
  ASSUME NEW c \in Callers, call \in [Callers -> CallType], Return(c)
  PROVE  /\ call' \in [Callers -> CallType]
         /\ call'[c].op = "none" /\ call'[c].at = "idle" /\ call'[c].key = 0
         /\ \A d \in Callers \ {c} : call'[d] = call[d]
<1> DEFINE new == NoCall
<1>1. new \in CallType /\ new.op = "none" /\ new.at = "idle" /\ new.key = 0
  BY NoCallIsTyped
<1>2. call' = [call EXCEPT ![c] = new]
  BY DEF Return
<1> HIDE DEF new
<1> QED
  BY <1>1, <1>2

\* A command that goes on keeps all but its step.
LEMMA GotoKeeps ==
  ASSUME NEW c \in Callers, call \in [Callers -> CallType],
         NEW at \in {"load", "key", "write", "replace", "overwrite", "unlink", "save"} \cup Deleting, Goto(c, at)
  PROVE  /\ call' \in [Callers -> CallType]
         /\ call'[c].at = at
         /\ call'[c].op = call[c].op /\ call'[c].name = call[c].name /\ call'[c].loaded = call[c].loaded
         /\ call'[c].key = call[c].key /\ call'[c].pid = call[c].pid
         /\ \A d \in Callers \ {c} : call'[d] = call[d]
<1>1. call[c] \in CallType
  OBVIOUS
<1>2. [call[c] EXCEPT !.at = at] \in CallType
  BY <1>1 DEF CallType
<1> QED
  BY <1>1, <1>2 DEF Goto, CallType

\* A command that neither writes a draft nor is about to rename one leaves the others theirs.
LEMMA SameDrafts ==
  ASSUME IInv, NEW c \in Callers, drafts' = drafts, litter' = litter,
         \A d \in Callers \ {c} : call'[d] = call[d],
         call[c].at # "replace" \/ Draft(c) \notin drafts
  PROVE  DraftsAreHeld'
<1>1. \A d \in Callers \ {c} : Draft(d)' = Draft(d)
  BY DEF Draft
<1> QED
  BY <1>1 DEF IInv, DraftsAreHeld

LEMMA BeginKeeps ==
  ASSUME IInv, NEW c \in Callers, NEW op \in Working, NEW n \in Names, Begin(c, op, n)
  PROVE  IInv'
<1>1. call \in [Callers -> CallType] /\ call[c].op = "none"
  BY TypesUnfold DEF Begin, NoCall
<1>2. /\ call' \in [Callers -> CallType]
      /\ call'[c].op = op /\ call'[c].at = "load" /\ call'[c].name = n /\ call'[c].key = 0
      /\ call'[c].pid \in Pids /\ call'[c].at # "write"
      /\ \A d \in Callers \ {c} : call'[d] = call[d]
  <2> DEFINE new == [op |-> op, at |-> "load", name |-> n, loaded |-> {}, key |-> 0, pid |-> commands + 1]
  <2>0. commands + 1 \in Pids /\ commands + 1 \in 0..MaxCommands /\ op \in {"list"} \cup Writing
    BY DEF Begin, IInv, TypeOK, Pids, Working
  <2>3. new \in CallType
    BY <2>0 DEF CallType
  <2>4. new.op = op /\ new.at = "load" /\ new.name = n /\ new.key = 0 /\ new.pid \in Pids
    BY <2>0
  <2>2. call' = [call EXCEPT ![c] = new]
    BY DEF Begin
  <2> HIDE DEF new
  <2> QED
    BY <1>1, <2>2, <2>3, <2>4
<1>3. /\ UNCHANGED <<registered, key, lives, standing, file, drafts, litter, index, crashes, halfDone>> /\ registered
      /\ commands' \in 0..MaxCommands
  BY DEF Begin, files, account, IInv, TypeOK
<1>4. /\ raced' \in BOOLEAN
      /\ raced \/ (\E d \in Callers : call[d].op = "delete_user")
               \/ (op \in Writing /\ \E d \in Callers : call[d].op \in Writing) => raced'
  BY DEF Begin, Running
<1>5. /\ contested \subseteq contested' /\ contested' \subseteq Names
      /\ op \in Writing /\ (\E d \in Callers : call[d].op = "delete_user"
                               \/ (call[d].op \in Writing /\ call[d].name = n)) => n \in contested'
  BY DEF Begin, IInv, TypeOK
<1>6. deleted' \subseteq deleted /\ (op \in Storing => n \notin deleted')
  BY DEF Begin, Storing
<1>7. TypeOK'
  BY <1>1, <1>2, <1>3, <1>4, <1>5, <1>6 DEF IInv, TypeOK, CallType, FileType, DraftType
<1>8. \A e \in Callers : CallOk(e)'
  <2> SUFFICES ASSUME NEW e \in Callers PROVE CallOk(e)'
    OBVIOUS
  <2>0. CallOk(e) /\ lives \in Nat /\ call[e].key \in Nat
    BY DEF IInv, TypeOK, CallType
  <2>1. CASE e = c
    BY <1>1, <1>2, <1>3, <1>4, <1>5, <1>6, <2>0, <2>1 DEF CallOk, Writing, Storing, Working, Deleting
  <2>2. CASE e # c
    BY <1>1, <1>2, <1>3, <1>4, <1>5, <1>6, <2>0, <2>2 DEF CallOk, Writing, Storing, Working, Deleting
  <2> QED
    BY <2>1, <2>2
<1>9. Overlaps'
  BY <1>1, <1>2, <1>3, <1>4, <1>5, <1>6, Steps DEF IInv, Overlaps, Sealed, Readable, Writing, Storing, Working, Deleting
<1>10. DeletionsHold'
  BY <1>1, <1>2, <1>3, <1>4, <1>5, <1>6, Steps, TypesUnfold DEF IInv, DeletionsHold, Sealed, Readable, Writing, Storing, Working, Deleting
<1>11. TreeIsGone'
  BY <1>1, <1>2, <1>3, <1>4, <1>5, <1>6, Steps DEF IInv, TreeIsGone, Sealed, Readable, Writing, Storing, Working, Deleting
<1>12. IndexIsKept'
  BY <1>1, <1>2, <1>3, <1>4, <1>5, <1>6, Steps, TypesUnfold DEF IInv, IndexIsKept, Sealed, Readable, Writing, Storing, Working, Deleting
<1>13. DraftsAreHeld'
  BY <1>1, <1>2, <1>3, SameDrafts DEF Begin, NoCall
<1> QED
  BY <1>7, <1>8, <1>9, <1>10, <1>11, <1>12, <1>13 DEF IInv

LEMMA LoadKeeps ==
  ASSUME IInv, NEW c \in Callers, Load(c)
  PROVE  IInv'
<1>1. call \in [Callers -> CallType] /\ call[c].at = "load" /\ call[c].op \in Working
  BY TypesUnfold DEF Load, IInv, CallOk, Working, Writing, Storing, Deleting, CallType
<1>2. /\ call' \in [Callers -> CallType]
      /\ \A d \in Callers \ {c} : call'[d] = call[d]
      /\ \/ call'[c].op = "none" /\ call'[c].at = "idle" /\ call'[c].key = 0
         \/ /\ call'[c].op = call[c].op /\ call'[c].name = call[c].name /\ call'[c].pid = call[c].pid
            /\ call'[c].key = call[c].key /\ call'[c].loaded = index /\ call[c].op # "list"
            /\ call'[c].at = (IF call[c].op = "delete" THEN "overwrite" ELSE "key")
  <2>1. CASE Return(c)
    BY <1>1, <2>1, ReturnKeeps
  <2>2. CASE /\ call' = [call EXCEPT ![c].loaded = index,
                               ![c].at = IF call[c].op = "delete" THEN "overwrite" ELSE "key"]
             /\ call[c].op # "list"
    <3>1. call[c] \in CallType /\ index \in SUBSET Names
      BY <1>1, TypesUnfold
    <3>2. [call[c] EXCEPT !.loaded = index, !.at = IF call[c].op = "delete" THEN "overwrite" ELSE "key"]
            \in CallType
      BY <3>1 DEF CallType
    <3> QED
      BY <1>1, <2>2, <3>1, <3>2 DEF CallType
  <2> QED
    BY <2>1, <2>2 DEF Load
<1>3. standing' = TRUE /\ UNCHANGED <<registered, key, lives, file, drafts, litter, index, commands, crashes>>
      /\ UNCHANGED <<deleted, halfDone, raced, contested>>
  BY DEF Load, files, account, history
<1>4. /\ ~registered \/ (\E d \in Callers : call[d].op = "delete_user" \/ call[d].at = "deregister") =>
           raced
      /\ \A d \in Callers \ {c} : call[c].op \in Writing /\ call[d].op \in Writing =>
           raced /\ (call[d].name = call[c].name => call[c].name \in contested)
  BY <1>1, Rivals DEF Working, Writing, Storing
<1>5. TypeOK'
  BY <1>1, <1>2, <1>3, <1>4 DEF IInv, TypeOK, CallType, FileType, DraftType
<1>6. \A e \in Callers : CallOk(e)'
  <2> SUFFICES ASSUME NEW e \in Callers PROVE CallOk(e)'
    OBVIOUS
  <2>0. CallOk(e) /\ lives \in Nat /\ call[e].key \in Nat
    BY DEF IInv, TypeOK, CallType
  <2>1. CASE e = c
    BY <1>1, <1>2, <1>3, <1>4, <2>0, <2>1 DEF CallOk, Writing, Storing, Working, Deleting
  <2>2. CASE e # c
    BY <1>1, <1>2, <1>3, <1>4, <2>0, <2>2 DEF CallOk, Writing, Storing, Working, Deleting
  <2> QED
    BY <2>1, <2>2
<1>7. Overlaps'
  BY <1>1, <1>2, <1>3, <1>4, Steps DEF IInv, Overlaps, Sealed, Readable, Writing, Storing, Working, Deleting
<1>8. DeletionsHold'
  BY <1>1, <1>2, <1>3, <1>4, Steps, TypesUnfold DEF IInv, DeletionsHold, Sealed, Readable, Writing, Storing, Working, Deleting
<1>9. TreeIsGone'
  BY <1>1, <1>2, <1>3, <1>4, Steps DEF IInv, TreeIsGone, Sealed, Readable, Writing, Storing, Working, Deleting
<1>10. IndexIsKept'
  BY <1>1, <1>2, <1>3, <1>4, Steps, TypesUnfold DEF IInv, IndexIsKept, Sealed, Readable, Writing, Storing, Working, Deleting
<1>11. DraftsAreHeld'
  BY <1>1, <1>2, <1>3, SameDrafts DEF Storing, Working, Writing
<1> QED
  BY <1>5, <1>6, <1>7, <1>8, <1>9, <1>10, <1>11 DEF IInv

LEMMA TakeKeyKeeps ==
  ASSUME IInv, NEW c \in Callers, TakeKey(c)
  PROVE  IInv'
<1>1. call \in [Callers -> CallType] /\ call[c].at = "key" /\ call[c].op \in Storing
  BY TypesUnfold DEF TakeKey, IInv, CallOk, Working, Writing, Storing, Deleting, CallType
<1>2. /\ call' \in [Callers -> CallType]
      /\ \A d \in Callers \ {c} : call'[d] = call[d]
      /\ \/ call'[c].op = "none" /\ call'[c].at = "idle" /\ call'[c].key = 0
         \/ /\ call'[c].op = call[c].op /\ call'[c].name = call[c].name /\ call'[c].pid = call[c].pid
            /\ call'[c].key = key /\ key # 0 /\ call'[c].loaded = call[c].loaded /\ call'[c].at = "write"
  <2>1. CASE Return(c)
    BY <1>1, <2>1, ReturnKeeps
  <2>2. CASE call' = [call EXCEPT ![c].key = key, ![c].at = "write"] /\ key # 0
    <3>1. call[c] \in CallType /\ key \in 0..MaxLives
      BY <1>1 DEF IInv, TypeOK
    <3>2. [call[c] EXCEPT !.key = key, !.at = "write"] \in CallType
      BY <3>1 DEF CallType
    <3> QED
      BY <1>1, <2>2, <3>1, <3>2 DEF CallType
  <2> QED
    BY <2>1, <2>2 DEF TakeKey
<1>3. /\ UNCHANGED <<registered, key, lives, standing, file, drafts, litter, index, commands, crashes>>
      /\ UNCHANGED <<deleted, halfDone, raced, contested>>
      /\ key \in {0, lives}
  BY DEF TakeKey, files, account, history, IInv, TypeOK
<1>4. TypeOK'
  BY <1>1, <1>2, <1>3 DEF IInv, TypeOK, CallType, FileType, DraftType
<1>5. \A e \in Callers : CallOk(e)'
  <2> SUFFICES ASSUME NEW e \in Callers PROVE CallOk(e)'
    OBVIOUS
  <2>0. CallOk(e) /\ lives \in Nat /\ call[e].key \in Nat
    BY DEF IInv, TypeOK, CallType
  <2>1. CASE e = c
    BY <1>1, <1>2, <1>3, <2>0, <2>1 DEF CallOk, Writing, Storing, Working, Deleting
  <2>2. CASE e # c
    BY <1>1, <1>2, <1>3, <2>0, <2>2 DEF CallOk, Writing, Storing, Working, Deleting
  <2> QED
    BY <2>1, <2>2
<1>6. Overlaps'
  BY <1>1, <1>2, <1>3, Steps DEF IInv, Overlaps, Sealed, Readable, Writing, Storing, Working, Deleting
<1>7. DeletionsHold'
  BY <1>1, <1>2, <1>3, Steps, TypesUnfold DEF IInv, DeletionsHold, Sealed, Readable, Writing, Storing, Working, Deleting
<1>8. TreeIsGone'
  BY <1>1, <1>2, <1>3, Steps DEF IInv, TreeIsGone, Sealed, Readable, Writing, Storing, Working, Deleting
<1>9. IndexIsKept'
  BY <1>1, <1>2, <1>3, Steps, TypesUnfold DEF IInv, IndexIsKept, Sealed, Readable, Writing, Storing, Working, Deleting
<1>10. DraftsAreHeld'
  BY <1>1, <1>2, <1>3, SameDrafts DEF Storing, Working, Writing
<1> QED
  BY <1>4, <1>5, <1>6, <1>7, <1>8, <1>9, <1>10 DEF IInv

LEMMA WriteDraftKeeps ==
  ASSUME IInv, NEW c \in Callers, WriteDraft(c)
  PROVE  IInv'
<1>1. /\ call \in [Callers -> CallType] /\ call[c].at = "write" /\ call[c].op \in Storing
      /\ call[c].name \in Names /\ call[c].pid \in Pids /\ call[c].key \in 1..lives
  BY TypesUnfold DEF WriteDraft, IInv, CallOk, Working, Writing, Storing, Deleting, CallType
<1>2. /\ call' \in [Callers -> CallType]
      /\ call'[c].at = "replace" /\ call'[c].op = call[c].op /\ call'[c].name = call[c].name
      /\ call'[c].loaded = call[c].loaded /\ call'[c].key = call[c].key /\ call'[c].pid = call[c].pid
      /\ \A d \in Callers \ {c} : call'[d] = call[d]
  BY <1>1, GotoKeeps DEF WriteDraft, Deleting
<1>3. standing' = TRUE /\ UNCHANGED <<registered, key, lives, file, litter, index, commands, crashes>>
      /\ UNCHANGED <<deleted, halfDone, raced, contested>>
  BY DEF WriteDraft, files, account, history
<1>4. drafts' = drafts \cup {Draft(c)} /\ Draft(c) \in DraftType /\ Draft(c).name = call[c].name
  BY <1>1 DEF WriteDraft, Draft, DraftType
<1>5. /\ ~registered \/ (\E d \in Callers : call[d].op = "delete_user" \/ call[d].at = "deregister") =>
           raced /\ call[c].name \in contested
      /\ \A d \in Callers \ {c} : call[c].op \in Writing /\ call[d].op \in Writing =>
           raced /\ (call[d].name = call[c].name => call[c].name \in contested)
  BY <1>1, Rivals DEF Working, Writing, Storing
<1>6. TypeOK'
  BY <1>1, <1>2, <1>3, <1>4, <1>5 DEF IInv, TypeOK, CallType, FileType, DraftType
<1>7. \A e \in Callers : CallOk(e)'
  <2> SUFFICES ASSUME NEW e \in Callers PROVE CallOk(e)'
    OBVIOUS
  <2>0. CallOk(e) /\ lives \in Nat /\ call[e].key \in Nat
    BY DEF IInv, TypeOK, CallType
  <2>1. CASE e = c
    BY <1>1, <1>2, <1>3, <1>4, <1>5, <2>0, <2>1 DEF CallOk, Writing, Storing, Working, Deleting
  <2>2. CASE e # c
    BY <1>1, <1>2, <1>3, <1>4, <1>5, <2>0, <2>2 DEF CallOk, Writing, Storing, Working, Deleting
  <2> QED
    BY <2>1, <2>2
<1>8. Overlaps'
  BY <1>1, <1>2, <1>3, <1>4, <1>5, Steps DEF IInv, Overlaps, Sealed, Readable, Writing, Storing, Working, Deleting
<1>9. DeletionsHold'
  BY <1>1, <1>2, <1>3, <1>4, <1>5, Steps, TypesUnfold DEF IInv, DeletionsHold, Sealed, Readable, Writing, Storing, Working, Deleting
<1>10. TreeIsGone'
  BY <1>1, <1>2, <1>3, <1>4, <1>5, Steps DEF IInv, TreeIsGone, Sealed, Readable, Writing, Storing, Working, Deleting
<1>11. IndexIsKept'
  BY <1>1, <1>2, <1>3, <1>4, <1>5, Steps, TypesUnfold DEF IInv, IndexIsKept, Sealed, Readable, Writing, Storing, Working, Deleting
<1>12. DraftsAreHeld'
  <2>1. \A d \in Callers : Draft(d)' = Draft(d)
    BY <1>2 DEF Draft
  <2> QED
    BY <1>1, <1>2, <1>3, <1>4, <2>1 DEF IInv, DraftsAreHeld
<1> QED
  BY <1>6, <1>7, <1>8, <1>9, <1>10, <1>11, <1>12 DEF IInv

LEMMA ReplaceFileKeeps ==
  ASSUME IInv, NEW c \in Callers, ReplaceFile(c), Draft(c) \in drafts
  PROVE  IInv'
<1>1. /\ call \in [Callers -> CallType] /\ call[c].at = "replace" /\ call[c].op \in Storing
      /\ call[c].name \in Names /\ call[c].pid \in Pids /\ call[c].key \in 1..lives
  BY TypesUnfold DEF ReplaceFile, IInv, CallOk, Working, Writing, Storing, Deleting, CallType
<1>2. /\ call' \in [Callers -> CallType]
      /\ call'[c].at = "save" /\ call'[c].op = call[c].op /\ call'[c].name = call[c].name
      /\ call'[c].loaded = call[c].loaded /\ call'[c].key = call[c].key /\ call'[c].pid = call[c].pid
      /\ \A d \in Callers \ {c} : call'[d] = call[d]
  BY <1>1, GotoKeeps DEF ReplaceFile, Deleting
<1>3. /\ UNCHANGED <<registered, key, lives, standing, litter, index, commands, crashes>>
      /\ UNCHANGED <<deleted, halfDone, raced, contested>>
  BY DEF ReplaceFile, account, history
<1>4. /\ file' \in [Names -> FileType]
      /\ drafts' = drafts \ {Draft(c)}
      /\ file'[call[c].name] = call[c].key /\ call[c].key # 0
      /\ \A m \in Names \ {call[c].name} : file'[m] = file[m]
  BY <1>1, TypesUnfold DEF ReplaceFile, FileType
<1>5. /\ ~registered \/ (\E d \in Callers : call[d].op = "delete_user" \/ call[d].at = "deregister") =>
           raced /\ call[c].name \in contested
      /\ \A d \in Callers \ {c} : call[c].op \in Writing /\ call[d].op \in Writing =>
           raced /\ (call[d].name = call[c].name => call[c].name \in contested)
  BY <1>1, Rivals DEF Working, Writing, Storing
<1>6. TypeOK'
  BY <1>1, <1>2, <1>3, <1>4, <1>5 DEF IInv, TypeOK, CallType, FileType, DraftType
<1>7. \A e \in Callers : CallOk(e)'
  <2> SUFFICES ASSUME NEW e \in Callers PROVE CallOk(e)'
    OBVIOUS
  <2>0. CallOk(e) /\ lives \in Nat /\ call[e].key \in Nat
    BY DEF IInv, TypeOK, CallType
  <2>1. CASE e = c
    BY <1>1, <1>2, <1>3, <1>4, <1>5, <2>0, <2>1 DEF CallOk, Writing, Storing, Working, Deleting
  <2>2. CASE e # c
    BY <1>1, <1>2, <1>3, <1>4, <1>5, <2>0, <2>2 DEF CallOk, Writing, Storing, Working, Deleting
  <2> QED
    BY <2>1, <2>2
<1>8. Overlaps'
  BY <1>1, <1>2, <1>3, <1>4, <1>5, Steps DEF IInv, Overlaps, Sealed, Readable, Writing, Storing, Working, Deleting
<1>9. DeletionsHold'
  BY <1>1, <1>2, <1>3, <1>4, <1>5, Steps, TypesUnfold DEF IInv, DeletionsHold, Sealed, Readable, Writing, Storing, Working, Deleting
<1>10. TreeIsGone'
  BY <1>1, <1>2, <1>3, <1>4, <1>5, Steps DEF IInv, TreeIsGone, Sealed, Readable, Writing, Storing, Working, Deleting
<1>11. IndexIsKept'
  BY <1>1, <1>2, <1>3, <1>4, <1>5, Steps, TypesUnfold DEF IInv, IndexIsKept, Sealed, Readable, Writing, Storing, Working, Deleting
<1>12. DraftsAreHeld'
  <2>1. \A d \in Callers : Draft(d)' = Draft(d)
    BY <1>2 DEF Draft
  <2> QED
    BY <1>2, <1>3, <1>4, <2>1 DEF IInv, DraftsAreHeld
<1> QED
  BY <1>6, <1>7, <1>8, <1>9, <1>10, <1>11, <1>12 DEF IInv

\* A rename whose tree was wiped ends the command.
LEMMA ReplaceFails ==
  ASSUME IInv, NEW c \in Callers, ReplaceFile(c), Draft(c) \notin drafts
  PROVE  IInv'
<1>1. call \in [Callers -> CallType]
  BY TypesUnfold
<1>2. /\ call' \in [Callers -> CallType]
      /\ call'[c].op = "none" /\ call'[c].at = "idle" /\ call'[c].key = 0
      /\ \A d \in Callers \ {c} : call'[d] = call[d]
  BY <1>1, ReturnKeeps DEF ReplaceFile
<1>3. /\ UNCHANGED <<registered, key, lives, standing, file, drafts, litter, index, commands, crashes>>
      /\ UNCHANGED <<deleted, halfDone, raced, contested>>
  BY DEF ReplaceFile, account, history
<1>4. call[c].op \in Storing
  BY <1>1 DEF ReplaceFile, IInv, CallOk, CallType, Writing, Storing, Deleting
<1>5. TypeOK'
  BY <1>1, <1>2, <1>3, <1>4 DEF IInv, TypeOK, CallType, FileType, DraftType
<1>6. \A e \in Callers : CallOk(e)'
  <2> SUFFICES ASSUME NEW e \in Callers PROVE CallOk(e)'
    OBVIOUS
  <2>0. CallOk(e) /\ lives \in Nat /\ call[e].key \in Nat
    BY DEF IInv, TypeOK, CallType
  <2>1. CASE e = c
    BY <1>1, <1>2, <1>3, <1>4, <2>0, <2>1 DEF CallOk, Writing, Storing, Working, Deleting
  <2>2. CASE e # c
    BY <1>1, <1>2, <1>3, <1>4, <2>0, <2>2 DEF CallOk, Writing, Storing, Working, Deleting
  <2> QED
    BY <2>1, <2>2
<1>7. Overlaps'
  BY <1>1, <1>2, <1>3, <1>4, Steps DEF IInv, Overlaps, Sealed, Readable, Writing, Storing, Working, Deleting
<1>8. DeletionsHold'
  BY <1>1, <1>2, <1>3, <1>4, Steps, TypesUnfold DEF IInv, DeletionsHold, Sealed, Readable, Writing, Storing, Working, Deleting
<1>9. TreeIsGone'
  BY <1>1, <1>2, <1>3, <1>4, Steps DEF IInv, TreeIsGone, Sealed, Readable, Writing, Storing, Working, Deleting
<1>10. IndexIsKept'
  BY <1>1, <1>2, <1>3, <1>4, Steps, TypesUnfold DEF IInv, IndexIsKept, Sealed, Readable, Writing, Storing, Working, Deleting
<1>11. DraftsAreHeld'
  BY <1>1, <1>2, <1>3, SameDrafts DEF Storing, Working, Writing
<1> QED
  BY <1>5, <1>6, <1>7, <1>8, <1>9, <1>10, <1>11 DEF IInv

LEMMA OverwriteKeeps ==
  ASSUME IInv, NEW c \in Callers, Overwrite(c)
  PROVE  IInv'
<1>1. /\ call \in [Callers -> CallType] /\ call[c].at = "overwrite" /\ call[c].op = "delete"
      /\ call[c].name \in Names
  BY TypesUnfold DEF Overwrite, IInv, CallOk, Working, Writing, Storing, Deleting, CallType
<1>2. /\ call' \in [Callers -> CallType]
      /\ call'[c].at = (IF Sealed(call[c].name) THEN "unlink" ELSE "save")
      /\ call'[c].op = call[c].op /\ call'[c].name = call[c].name
      /\ call'[c].loaded = call[c].loaded /\ call'[c].key = call[c].key /\ call'[c].pid = call[c].pid
      /\ \A d \in Callers \ {c} : call'[d] = call[d]
  BY <1>1, GotoKeeps DEF Overwrite
<1>3. UNCHANGED <<registered, key, lives, standing, drafts, litter, index, commands, crashes>>
      /\ UNCHANGED <<deleted, halfDone, raced, contested>>
  BY DEF Overwrite, files, account, history
<1>4. /\ file' \in [Names -> FileType]
      /\ \A m \in Names : Sealed(m)' <=> Sealed(m)
      /\ \A m \in Names \ {call[c].name} : file'[m] = file[m]
  BY <1>1, TypesUnfold DEF Overwrite, Sealed, FileType, Scrambled
<1>5. /\ ~registered \/ (\E d \in Callers : call[d].op = "delete_user" \/ call[d].at = "deregister") =>
           raced /\ call[c].name \in contested
      /\ \A d \in Callers \ {c} : call[c].op \in Writing /\ call[d].op \in Writing =>
           raced /\ (call[d].name = call[c].name => call[c].name \in contested)
  BY <1>1, Rivals DEF Working, Writing, Storing
<1>6. TypeOK'
  BY <1>1, <1>2, <1>3, <1>4, <1>5 DEF IInv, TypeOK, CallType, FileType, DraftType
<1>7. \A e \in Callers : CallOk(e)'
  <2> SUFFICES ASSUME NEW e \in Callers PROVE CallOk(e)'
    OBVIOUS
  <2>0. CallOk(e) /\ lives \in Nat /\ call[e].key \in Nat
    BY DEF IInv, TypeOK, CallType
  <2>1. CASE e = c
    BY <1>1, <1>2, <1>3, <1>4, <1>5, <2>0, <2>1 DEF CallOk, Writing, Storing, Working, Deleting
  <2>2. CASE e # c
    BY <1>1, <1>2, <1>3, <1>4, <1>5, <2>0, <2>2 DEF CallOk, Writing, Storing, Working, Deleting
  <2> QED
    BY <2>1, <2>2
<1>8. Overlaps'
  BY <1>1, <1>2, <1>3, <1>4, <1>5, Steps DEF IInv, Overlaps, Sealed, Readable, Writing, Storing, Working, Deleting
<1>9. DeletionsHold'
  BY <1>1, <1>2, <1>3, <1>4, <1>5, Steps, TypesUnfold DEF IInv, DeletionsHold, Sealed, Readable, Writing, Storing, Working, Deleting
<1>10. TreeIsGone'
  BY <1>1, <1>2, <1>3, <1>4, <1>5, Steps DEF IInv, TreeIsGone, Sealed, Readable, Writing, Storing, Working, Deleting
<1>11. IndexIsKept'
  BY <1>1, <1>2, <1>3, <1>4, <1>5, Steps, TypesUnfold DEF IInv, IndexIsKept, Sealed, Readable, Writing, Storing, Working, Deleting
<1>12. DraftsAreHeld'
  BY <1>1, <1>2, <1>3, SameDrafts DEF Storing, Working, Writing
<1> QED
  BY <1>6, <1>7, <1>8, <1>9, <1>10, <1>11, <1>12 DEF IInv

LEMMA UnlinkKeeps ==
  ASSUME IInv, NEW c \in Callers, Unlink(c)
  PROVE  IInv'
<1>1. /\ call \in [Callers -> CallType] /\ call[c].at = "unlink" /\ call[c].op = "delete"
      /\ call[c].name \in Names
  BY TypesUnfold DEF Unlink, IInv, CallOk, Working, Writing, Storing, Deleting, CallType
<1>2. /\ call' \in [Callers -> CallType]
      /\ call'[c].at = "save" /\ call'[c].op = call[c].op /\ call'[c].name = call[c].name
      /\ call'[c].loaded = call[c].loaded /\ call'[c].key = call[c].key /\ call'[c].pid = call[c].pid
      /\ \A d \in Callers \ {c} : call'[d] = call[d]
  BY <1>1, GotoKeeps DEF Unlink, Deleting
<1>3. UNCHANGED <<registered, key, lives, standing, drafts, litter, index, commands, crashes>>
      /\ UNCHANGED <<deleted, halfDone, raced, contested>>
  BY DEF Unlink, files, account, history
<1>4. /\ file' \in [Names -> FileType]
      /\ file'[call[c].name] = 0
      /\ \A m \in Names \ {call[c].name} : file'[m] = file[m]
  BY <1>1, TypesUnfold DEF Unlink, FileType
<1>5. /\ ~registered \/ (\E d \in Callers : call[d].op = "delete_user" \/ call[d].at = "deregister") =>
           raced /\ call[c].name \in contested
      /\ \A d \in Callers \ {c} : call[c].op \in Writing /\ call[d].op \in Writing =>
           raced /\ (call[d].name = call[c].name => call[c].name \in contested)
  BY <1>1, Rivals DEF Working, Writing, Storing
<1>6. TypeOK'
  BY <1>1, <1>2, <1>3, <1>4, <1>5 DEF IInv, TypeOK, CallType, FileType, DraftType
<1>7. \A e \in Callers : CallOk(e)'
  <2> SUFFICES ASSUME NEW e \in Callers PROVE CallOk(e)'
    OBVIOUS
  <2>0. CallOk(e) /\ lives \in Nat /\ call[e].key \in Nat
    BY DEF IInv, TypeOK, CallType
  <2>1. CASE e = c
    BY <1>1, <1>2, <1>3, <1>4, <1>5, <2>0, <2>1 DEF CallOk, Writing, Storing, Working, Deleting
  <2>2. CASE e # c
    BY <1>1, <1>2, <1>3, <1>4, <1>5, <2>0, <2>2 DEF CallOk, Writing, Storing, Working, Deleting
  <2> QED
    BY <2>1, <2>2
<1>8. Overlaps'
  BY <1>1, <1>2, <1>3, <1>4, <1>5, Steps DEF IInv, Overlaps, Sealed, Readable, Writing, Storing, Working, Deleting
<1>9. DeletionsHold'
  BY <1>1, <1>2, <1>3, <1>4, <1>5, Steps, TypesUnfold DEF IInv, DeletionsHold, Sealed, Readable, Writing, Storing, Working, Deleting
<1>10. TreeIsGone'
  BY <1>1, <1>2, <1>3, <1>4, <1>5, Steps DEF IInv, TreeIsGone, Sealed, Readable, Writing, Storing, Working, Deleting
<1>11. IndexIsKept'
  BY <1>1, <1>2, <1>3, <1>4, <1>5, Steps, TypesUnfold DEF IInv, IndexIsKept, Sealed, Readable, Writing, Storing, Working, Deleting
<1>12. DraftsAreHeld'
  BY <1>1, <1>2, <1>3, SameDrafts DEF Storing, Working, Writing
<1> QED
  BY <1>6, <1>7, <1>8, <1>9, <1>10, <1>11, <1>12 DEF IInv

LEMMA SaveIndexKeeps ==
  ASSUME IInv, NEW c \in Callers, SaveIndex(c)
  PROVE  IInv'
<1>1. /\ call \in [Callers -> CallType] /\ call[c].at = "save" /\ call[c].op \in Writing
      /\ call[c].name \in Names
  BY TypesUnfold DEF SaveIndex, IInv, CallOk, Working, Writing, Storing, Deleting, CallType
<1>2. /\ call' \in [Callers -> CallType]
      /\ call'[c].op = "none" /\ call'[c].at = "idle" /\ call'[c].key = 0
      /\ \A d \in Callers \ {c} : call'[d] = call[d]
  BY <1>1, ReturnKeeps DEF SaveIndex
<1>3. standing' = TRUE /\ UNCHANGED <<registered, key, lives, file, drafts, litter, commands, crashes, raced, contested>>
  BY DEF SaveIndex, files, account
<1>4. /\ index' = IF call[c].op = "delete" THEN call[c].loaded \ {call[c].name}
                                           ELSE call[c].loaded \cup {call[c].name}
      /\ index' \subseteq Names
      /\ deleted' = IF call[c].op = "delete" THEN deleted \cup {call[c].name} ELSE deleted
      /\ halfDone' = halfDone \ {call[c].name}
  BY <1>1 DEF SaveIndex, Entries, CallType
<1>5. /\ ~registered \/ (\E d \in Callers : call[d].op = "delete_user" \/ call[d].at = "deregister") =>
           raced /\ call[c].name \in contested
      /\ \A d \in Callers \ {c} : call[c].op \in Writing /\ call[d].op \in Writing =>
           raced /\ (call[d].name = call[c].name => call[c].name \in contested)
  BY <1>1, Rivals DEF Working, Writing, Storing
<1>6. TypeOK'
  BY <1>1, <1>2, <1>3, <1>4, <1>5 DEF IInv, TypeOK, CallType, FileType, DraftType
<1>7. \A e \in Callers : CallOk(e)'
  <2> SUFFICES ASSUME NEW e \in Callers PROVE CallOk(e)'
    OBVIOUS
  <2>0. CallOk(e) /\ lives \in Nat /\ call[e].key \in Nat
    BY DEF IInv, TypeOK, CallType
  <2>1. CASE e = c
    BY <1>1, <1>2, <1>3, <1>4, <1>5, <2>0, <2>1 DEF CallOk, Writing, Storing, Working, Deleting
  <2>2. CASE e # c
    BY <1>1, <1>2, <1>3, <1>4, <1>5, <2>0, <2>2 DEF CallOk, Writing, Storing, Working, Deleting
  <2> QED
    BY <2>1, <2>2
<1>8. Overlaps'
  BY <1>1, <1>2, <1>3, <1>4, <1>5, Steps DEF IInv, Overlaps, Sealed, Readable, Writing, Storing, Working, Deleting
<1>9. DeletionsHold'
  BY <1>1, <1>2, <1>3, <1>4, <1>5, Steps, TypesUnfold DEF IInv, DeletionsHold, Sealed, Readable, Writing, Storing, Working, Deleting
<1>10. TreeIsGone'
  BY <1>1, <1>2, <1>3, <1>4, <1>5, Steps DEF IInv, TreeIsGone, Sealed, Readable, Writing, Storing, Working, Deleting
<1>11. IndexIsKept'
  BY <1>1, <1>2, <1>3, <1>4, <1>5, Steps, TypesUnfold DEF IInv, IndexIsKept, Sealed, Readable, Writing, Storing, Working, Deleting
<1>12. DraftsAreHeld'
  BY <1>1, <1>2, <1>3, SameDrafts DEF Storing, Working, Writing
<1> QED
  BY <1>6, <1>7, <1>8, <1>9, <1>10, <1>11, <1>12 DEF IInv

LEMMA BurnKeyKeeps ==
  ASSUME IInv, NEW c \in Callers, BurnKey(c)
  PROVE  IInv'
<1>1. /\ call \in [Callers -> CallType] /\ call[c].op = "none" /\ registered /\ key # 0
      /\ \A d \in Callers : call[d].op # "delete_user"
  BY TypesUnfold DEF BurnKey, NoCall, IInv, Overlaps
<1>2. /\ call' \in [Callers -> CallType]
      /\ call'[c].op = "delete_user" /\ call'[c].at = "shred" /\ call'[c].key = 0
      /\ \A d \in Callers \ {c} : call'[d] = call[d]
  <2> DEFINE new == [op |-> "delete_user", at |-> "shred", name |-> "none",
                     loaded |-> {n \in Names : Sealed(n)}, key |-> 0, pid |-> 0]
  <2>1. new \in CallType /\ new.op = "delete_user" /\ new.at = "shred" /\ new.key = 0
    BY DEF CallType, Deleting
  <2>2. call' = [call EXCEPT ![c] = new]
    BY DEF BurnKey
  <2> HIDE DEF new
  <2> QED
    BY <1>1, <2>1, <2>2
<1>3. /\ UNCHANGED <<registered, lives, standing, file, drafts, litter, index, crashes, deleted, halfDone>>
      /\ key' = 0 /\ commands' \in 0..MaxCommands
  BY DEF BurnKey, files, IInv, TypeOK
<1>4. /\ raced' \in BOOLEAN
      /\ raced \/ (\E d \in Callers : call[d].op \in Working) => raced'
  BY DEF BurnKey, Running, Working
<1>5. /\ contested \subseteq contested' /\ contested' \subseteq Names
      /\ \A d \in Callers : call[d].op \in Writing => call[d].name \in contested'
  <2>1. \A d \in Callers : call[d].op \in Writing => call[d].name \in Names
    BY DEF IInv, CallOk, Working
  <2> QED
    BY <2>1 DEF BurnKey, Running, IInv, TypeOK
<1>6. TypeOK'
  BY <1>1, <1>2, <1>3, <1>4, <1>5 DEF IInv, TypeOK, CallType, FileType, DraftType
<1>7. \A e \in Callers : CallOk(e)'
  <2> SUFFICES ASSUME NEW e \in Callers PROVE CallOk(e)'
    OBVIOUS
  <2>0. CallOk(e) /\ lives \in Nat /\ call[e].key \in Nat
    BY DEF IInv, TypeOK, CallType
  <2>1. CASE e = c
    BY <1>1, <1>2, <1>3, <1>4, <1>5, <2>0, <2>1 DEF CallOk, Writing, Storing, Working, Deleting
  <2>2. CASE e # c
    BY <1>1, <1>2, <1>3, <1>4, <1>5, <2>0, <2>2 DEF CallOk, Writing, Storing, Working, Deleting
  <2> QED
    BY <2>1, <2>2
<1>8. Overlaps'
  BY <1>1, <1>2, <1>3, <1>4, <1>5, Steps DEF IInv, Overlaps, Sealed, Readable, Writing, Storing, Working, Deleting
<1>9. DeletionsHold'
  BY <1>1, <1>2, <1>3, <1>4, <1>5, Steps, TypesUnfold DEF IInv, DeletionsHold, Sealed, Readable, Writing, Storing, Working, Deleting
<1>10. TreeIsGone'
  BY <1>1, <1>2, <1>3, <1>4, <1>5, Steps DEF IInv, TreeIsGone, Sealed, Readable, Writing, Storing, Working, Deleting
<1>11. IndexIsKept'
  BY <1>1, <1>2, <1>3, <1>4, <1>5, Steps, TypesUnfold DEF IInv, IndexIsKept, Sealed, Readable, Writing, Storing, Working, Deleting
<1>12. DraftsAreHeld'
  BY <1>1, <1>2, <1>3, SameDrafts DEF BurnKey, NoCall
<1> QED
  BY <1>6, <1>7, <1>8, <1>9, <1>10, <1>11, <1>12 DEF IInv

LEMMA ShredSecretKeeps ==
  ASSUME IInv, NEW c \in Callers, ShredSecret(c)
  PROVE  IInv'
<1>1. call \in [Callers -> CallType] /\ call[c].at = "shred" /\ call[c].op = "delete_user"
  BY TypesUnfold DEF ShredSecret, IInv, CallOk, Working, Writing, Storing, Deleting, CallType
<1>2. /\ call' \in [Callers -> CallType]
      /\ call'[c].at \in {"shred", "wipe"} /\ call'[c].op = "delete_user" /\ call'[c].key = call[c].key
      /\ \A d \in Callers \ {c} : call'[d] = call[d]
  <2>1. CASE Goto(c, "wipe")
    BY <1>1, <2>1, GotoKeeps DEF Deleting
  <2>2. CASE \E n \in call[c].loaded : call' = [call EXCEPT ![c].loaded = @ \ {n}]
    <3>1. PICK n \in call[c].loaded : call' = [call EXCEPT ![c].loaded = @ \ {n}]
      BY <2>2
    <3>2. call[c] \in CallType /\ call[c].loaded \ {n} \in SUBSET Names
      BY <1>1 DEF CallType
    <3>3. [call[c] EXCEPT !.loaded = @ \ {n}] \in CallType
      BY <3>2 DEF CallType
    <3> QED
      BY <1>1, <3>1, <3>2, <3>3 DEF CallType
  <2> QED
    BY <2>1, <2>2 DEF ShredSecret
<1>3. UNCHANGED <<registered, key, lives, standing, drafts, litter, index, commands, crashes>>
      /\ UNCHANGED <<deleted, halfDone, raced, contested>>
  BY DEF ShredSecret, files, account, history
<1>4. /\ file' \in [Names -> FileType]
      /\ \A m \in Names : file'[m] \in {file[m], 0}
      /\ key = 0
  BY <1>1, TypesUnfold DEF ShredSecret, IInv, Overlaps, FileType
<1>5. TypeOK'
  BY <1>1, <1>2, <1>3, <1>4 DEF IInv, TypeOK, CallType, FileType, DraftType
<1>6. \A e \in Callers : CallOk(e)'
  <2> SUFFICES ASSUME NEW e \in Callers PROVE CallOk(e)'
    OBVIOUS
  <2>0. CallOk(e) /\ lives \in Nat /\ call[e].key \in Nat
    BY DEF IInv, TypeOK, CallType
  <2>1. CASE e = c
    BY <1>1, <1>2, <1>3, <1>4, <2>0, <2>1 DEF CallOk, Writing, Storing, Working, Deleting
  <2>2. CASE e # c
    BY <1>1, <1>2, <1>3, <1>4, <2>0, <2>2 DEF CallOk, Writing, Storing, Working, Deleting
  <2> QED
    BY <2>1, <2>2
<1>7. Overlaps'
  BY <1>1, <1>2, <1>3, <1>4, Steps DEF IInv, Overlaps, Sealed, Readable, Writing, Storing, Working, Deleting
<1>8. DeletionsHold'
  BY <1>1, <1>2, <1>3, <1>4, Steps, TypesUnfold DEF IInv, DeletionsHold, Sealed, Readable, Writing, Storing, Working, Deleting
<1>9. TreeIsGone'
  BY <1>1, <1>2, <1>3, <1>4, Steps DEF IInv, TreeIsGone, Sealed, Readable, Writing, Storing, Working, Deleting
<1>10. IndexIsKept'
  BY <1>1, <1>2, <1>3, <1>4, Steps, TypesUnfold DEF IInv, IndexIsKept, Sealed, Readable, Writing, Storing, Working, Deleting
<1>11. DraftsAreHeld'
  BY <1>1, <1>2, <1>3, SameDrafts DEF Storing, Working, Writing
<1> QED
  BY <1>5, <1>6, <1>7, <1>8, <1>9, <1>10, <1>11 DEF IInv

LEMMA WipeTreeKeeps ==
  ASSUME IInv, NEW c \in Callers, WipeTree(c)
  PROVE  IInv'
<1>1. call \in [Callers -> CallType] /\ call[c].at = "wipe" /\ call[c].op = "delete_user"
  BY TypesUnfold DEF WipeTree, IInv, CallOk, Working, Writing, Storing, Deleting, CallType
<1>2. /\ call' \in [Callers -> CallType]
      /\ call'[c].at = "deregister" /\ call'[c].op = call[c].op /\ call'[c].name = call[c].name
      /\ call'[c].loaded = call[c].loaded /\ call'[c].key = call[c].key /\ call'[c].pid = call[c].pid
      /\ \A d \in Callers \ {c} : call'[d] = call[d]
  BY <1>1, GotoKeeps DEF WipeTree, Deleting
<1>3. /\ standing' = FALSE /\ index' = {} /\ drafts' = {}
      /\ UNCHANGED <<registered, key, lives, litter, commands, crashes>>
      /\ UNCHANGED <<deleted, halfDone, raced, contested>>
  BY DEF WipeTree, files, account, history
<1>4. file' \in [Names -> FileType] /\ \A m \in Names : file'[m] = 0
  BY TypesUnfold DEF WipeTree, FileType
<1>5. key = 0 /\ \A d \in Callers : call[d].op \in Working => raced
  BY <1>1, Steps, Rivals
<1>6. TypeOK'
  BY <1>1, <1>2, <1>3, <1>4, <1>5 DEF IInv, TypeOK, CallType, FileType, DraftType
<1>7. \A e \in Callers : CallOk(e)'
  <2> SUFFICES ASSUME NEW e \in Callers PROVE CallOk(e)'
    OBVIOUS
  <2>0. CallOk(e) /\ lives \in Nat /\ call[e].key \in Nat
    BY DEF IInv, TypeOK, CallType
  <2>1. CASE e = c
    BY <1>1, <1>2, <1>3, <1>4, <1>5, <2>0, <2>1 DEF CallOk, Writing, Storing, Working, Deleting
  <2>2. CASE e # c
    BY <1>1, <1>2, <1>3, <1>4, <1>5, <2>0, <2>2 DEF CallOk, Writing, Storing, Working, Deleting
  <2> QED
    BY <2>1, <2>2
<1>8. Overlaps'
  BY <1>1, <1>2, <1>3, <1>4, <1>5, Steps DEF IInv, Overlaps, Sealed, Readable, Writing, Storing, Working, Deleting
<1>9. DeletionsHold'
  BY <1>1, <1>2, <1>3, <1>4, <1>5, Steps, TypesUnfold DEF IInv, DeletionsHold, Sealed, Readable, Writing, Storing, Working, Deleting
<1>10. TreeIsGone'
  BY <1>1, <1>2, <1>3, <1>4, <1>5, Steps DEF IInv, TreeIsGone, Sealed, Readable, Writing, Storing, Working, Deleting
<1>11. IndexIsKept'
  BY <1>1, <1>2, <1>3, <1>4, <1>5, Steps, TypesUnfold DEF IInv, IndexIsKept, Sealed, Readable, Writing, Storing, Working, Deleting
<1>12. DraftsAreHeld'
  BY <1>3 DEF DraftsAreHeld
<1> QED
  BY <1>6, <1>7, <1>8, <1>9, <1>10, <1>11, <1>12 DEF IInv

LEMMA DeregisterKeeps ==
  ASSUME IInv, NEW c \in Callers, Deregister(c)
  PROVE  IInv'
<1>1. call \in [Callers -> CallType] /\ call[c].at = "deregister" /\ call[c].op = "delete_user"
  BY TypesUnfold DEF Deregister, IInv, CallOk, Working, Writing, Storing, Deleting, CallType
<1>2. /\ call' \in [Callers -> CallType]
      /\ call'[c].op = "none" /\ call'[c].at = "idle" /\ call'[c].key = 0
      /\ \A d \in Callers \ {c} : call'[d] = call[d]
  BY <1>1, ReturnKeeps DEF Deregister
<1>3. registered' = FALSE /\ UNCHANGED <<key, lives, standing, file, drafts, litter, index, commands, crashes>>
      /\ UNCHANGED <<deleted, halfDone, raced, contested>>
  BY DEF Deregister, files, history
<1>4. TypeOK'
  BY <1>1, <1>2, <1>3 DEF IInv, TypeOK, CallType, FileType, DraftType
<1>5. \A e \in Callers : CallOk(e)'
  <2> SUFFICES ASSUME NEW e \in Callers PROVE CallOk(e)'
    OBVIOUS
  <2>0. CallOk(e) /\ lives \in Nat /\ call[e].key \in Nat
    BY DEF IInv, TypeOK, CallType
  <2>1. CASE e = c
    BY <1>1, <1>2, <1>3, <2>0, <2>1 DEF CallOk, Writing, Storing, Working, Deleting
  <2>2. CASE e # c
    BY <1>1, <1>2, <1>3, <2>0, <2>2 DEF CallOk, Writing, Storing, Working, Deleting
  <2> QED
    BY <2>1, <2>2
<1>6. Overlaps'
  BY <1>1, <1>2, <1>3, Steps DEF IInv, Overlaps, Sealed, Readable, Writing, Storing, Working, Deleting
<1>7. DeletionsHold'
  BY <1>1, <1>2, <1>3, Steps, TypesUnfold DEF IInv, DeletionsHold, Sealed, Readable, Writing, Storing, Working, Deleting
<1>8. TreeIsGone'
  BY <1>1, <1>2, <1>3, Steps DEF IInv, TreeIsGone, Sealed, Readable, Writing, Storing, Working, Deleting
<1>9. IndexIsKept'
  BY <1>1, <1>2, <1>3, Steps, TypesUnfold DEF IInv, IndexIsKept, Sealed, Readable, Writing, Storing, Working, Deleting
<1>10. DraftsAreHeld'
  BY <1>1, <1>2, <1>3, SameDrafts DEF Storing, Working, Writing
<1> QED
  BY <1>4, <1>5, <1>6, <1>7, <1>8, <1>9, <1>10 DEF IInv

LEMMA CrashKeeps ==
  ASSUME IInv, NEW c \in Callers, Crash(c)
  PROVE  IInv'
<1>1. call \in [Callers -> CallType]
  BY TypesUnfold
<1>2. /\ call' \in [Callers -> CallType]
      /\ call'[c].op = "none" /\ call'[c].at = "idle" /\ call'[c].key = 0
      /\ \A d \in Callers \ {c} : call'[d] = call[d]
  BY <1>1, ReturnKeeps DEF Crash
<1>3. /\ UNCHANGED <<registered, key, lives, standing, file, drafts, index, commands>>
      /\ UNCHANGED <<deleted, raced, contested>>
      /\ crashes' \in 0..MaxCrashes
      /\ litter \subseteq litter'
      /\ call[c].at = "replace" => litter' = litter \cup {Draft(c)}
  BY DEF Crash, account, IInv, TypeOK
<1>4. /\ halfDone \subseteq halfDone' /\ halfDone' \subseteq Names
      /\ call[c].op = "delete" /\ call[c].at \in {"unlink", "save"} => call[c].name \in halfDone'
  <2>1. call[c].at \in {"unlink", "save"} => call[c].name \in Names
    BY <1>1 DEF IInv, CallOk, CallType, Storing, Working, Writing, Deleting
  <2>2. halfDone \subseteq Names
    BY DEF IInv, TypeOK
  <2>3. call[c].op = "delete_user" => call[c].at \notin {"unlink", "save"}
    BY DEF IInv, CallOk, Deleting
  <2>4. CASE call[c].op = "delete_user"
    BY <2>2, <2>4, <2>3 DEF Crash
  <2>5. CASE call[c].op # "delete_user" /\ call[c].at \in {"unlink", "save"}
    BY <2>1, <2>2, <2>5 DEF Crash
  <2>6. CASE call[c].op # "delete_user" /\ call[c].at \notin {"unlink", "save"}
    BY <2>2, <2>6 DEF Crash
  <2> QED
    BY <2>4, <2>5, <2>6
<1>5. TypeOK'
  <2>1. litter' \in SUBSET DraftType
    BY <1>1, TypesUnfold DEF Crash, IInv, CallOk, CallType, DraftType, Draft, Storing, Working, Writing, Deleting
  <2> QED
    BY <1>1, <1>2, <1>3, <1>4, <2>1 DEF IInv, TypeOK, CallType, FileType, DraftType
<1>6. \A e \in Callers : CallOk(e)'
  <2> SUFFICES ASSUME NEW e \in Callers PROVE CallOk(e)'
    OBVIOUS
  <2>0. CallOk(e) /\ lives \in Nat /\ call[e].key \in Nat
    BY DEF IInv, TypeOK, CallType
  <2>1. CASE e = c
    BY <1>1, <1>2, <1>3, <1>4, <2>0, <2>1 DEF CallOk, Writing, Storing, Working, Deleting
  <2>2. CASE e # c
    BY <1>1, <1>2, <1>3, <1>4, <2>0, <2>2 DEF CallOk, Writing, Storing, Working, Deleting
  <2> QED
    BY <2>1, <2>2
<1>7. Overlaps'
  BY <1>1, <1>2, <1>3, <1>4, Steps DEF IInv, Overlaps, Sealed, Readable, Writing, Storing, Working, Deleting
<1>8. DeletionsHold'
  BY <1>1, <1>2, <1>3, <1>4, Steps, TypesUnfold DEF IInv, DeletionsHold, Sealed, Readable, Writing, Storing, Working, Deleting
<1>9. TreeIsGone'
  BY <1>1, <1>2, <1>3, <1>4, Steps DEF IInv, TreeIsGone, Sealed, Readable, Writing, Storing, Working, Deleting
<1>10. IndexIsKept'
  BY <1>1, <1>2, <1>3, <1>4, Steps, TypesUnfold DEF IInv, IndexIsKept, Sealed, Readable, Writing, Storing, Working, Deleting
<1>11. DraftsAreHeld'
  <2>1. \A d \in Callers \ {c} : Draft(d)' = Draft(d)
    BY <1>2 DEF Draft
  <2> QED
    BY <1>2, <1>3, <2>1 DEF IInv, DraftsAreHeld
<1> QED
  BY <1>5, <1>6, <1>7, <1>8, <1>9, <1>10, <1>11 DEF IInv

LEMMA RecreateKeeps ==
  ASSUME IInv, Recreate
  PROVE  IInv'
<1>1. /\ call \in [Callers -> CallType] /\ ~registered /\ ~standing
      /\ index = {} /\ drafts = {} /\ \A m \in Names : file[m] = 0
      /\ \A d \in Callers : call[d].op # "delete_user" /\ call[d].at # "deregister"
  BY TypesUnfold DEF Recreate, IInv, TreeIsGone, Overlaps, Sealed, CallOk, CallType, Writing, Storing, Deleting
<1>2. /\ registered' = TRUE /\ standing' = TRUE /\ key' = lives + 1 /\ lives' = lives + 1 /\ deleted' = {}
      /\ UNCHANGED <<file, drafts, litter, index, call, commands, crashes, halfDone, raced, contested>>
      /\ lives' \in 1..MaxLives /\ lives \in Nat
  BY DEF Recreate, files, IInv, TypeOK
<1>3. file' \in [Names -> (0..lives') \cup {Scrambled}] /\ litter' \subseteq DraftType'
  BY <1>1, <1>2, TypesUnfold DEF DraftType, FileType
<1>4. \A d \in Callers : call[d].op \in Working => raced
  BY <1>1, Rivals
<1>5. TypeOK'
  BY <1>1, <1>2, <1>3, <1>4 DEF IInv, TypeOK
<1>6. \A e \in Callers : CallOk(e)'
  BY <1>1, <1>2, TypesUnfold DEF IInv, CallOk, CallType
<1>7. Overlaps'
  BY <1>1, <1>2, <1>3, <1>4, Steps DEF IInv, Overlaps, Sealed, Readable, Writing, Storing, Working, Deleting
<1>8. DeletionsHold'
  BY <1>1, <1>2, <1>3, <1>4, Steps, TypesUnfold DEF IInv, DeletionsHold, Sealed, Readable, Writing, Storing, Working, Deleting
<1>9. TreeIsGone'
  BY <1>1, <1>2, <1>3, <1>4, Steps DEF IInv, TreeIsGone, Sealed, Readable, Writing, Storing, Working, Deleting
<1>10. IndexIsKept'
  BY <1>1, <1>2, <1>3, <1>4, Steps, TypesUnfold DEF IInv, IndexIsKept, Sealed, Readable, Writing, Storing, Working, Deleting
<1>11. DraftsAreHeld'
  BY <1>1, <1>2 DEF DraftsAreHeld
<1> QED
  BY <1>5, <1>6, <1>7, <1>8, <1>9, <1>10, <1>11 DEF IInv


-----------------------------------------------------------------------------
(* The theorems                                                             *)

LEMMA InitHolds ==
  ASSUME Init
  PROVE  IInv
<1> DEFINE none == NoCall
<1>1. \A c \in Callers : call[c] = none
  BY DEF Init
<1>2. none \in CallType /\ none.op = "none" /\ none.at = "idle" /\ none.key = 0
  BY NoCallIsTyped
<1>3. call \in [Callers -> CallType]
  <2>1. call = [c \in Callers |-> none]
    BY DEF Init
  <2> HIDE DEF none
  <2> QED
    BY <1>2, <2>1
<1> HIDE DEF none
<1>4. /\ registered = TRUE /\ key = 1 /\ standing = TRUE /\ lives = 1 /\ index = {}
      /\ drafts = {} /\ litter = {}
      /\ \A n \in Names : ~Sealed(n)
      /\ commands = 0 /\ crashes = 0 /\ deleted = {} /\ halfDone = {} /\ raced = FALSE /\ contested = {}
  BY DEF Init, Sealed
<1>5. TypeOK
  <2>1. file \in [Names -> (0..lives) \cup {Scrambled}]
    BY DEF Init
  <2>2. registered \in BOOLEAN /\ standing \in BOOLEAN /\ raced \in BOOLEAN
    BY <1>4
  <2>3. lives \in 1..MaxLives /\ key \in {0, lives} /\ commands \in 0..MaxCommands /\ crashes \in 0..MaxCrashes
    BY <1>4
  <2>4. index \subseteq Names /\ deleted \subseteq Names /\ halfDone \subseteq Names /\ contested \subseteq Names
    BY <1>4
  <2> QED
    BY <1>3, <1>4, <2>1, <2>2, <2>3, <2>4 DEF TypeOK
<1>6. \A c \in Callers : CallOk(c)
  BY <1>1, <1>2, <1>4 DEF CallOk, Working, Writing, Storing
<1>7. Overlaps /\ DeletionsHold /\ TreeIsGone /\ IndexIsKept /\ DraftsAreHeld
  BY <1>1, <1>2, <1>4 DEF Overlaps, DeletionsHold, TreeIsGone, IndexIsKept, DraftsAreHeld, Working, Writing,
     Storing
<1> QED
  BY <1>5, <1>6, <1>7 DEF IInv

LEMMA StutterKeeps ==
  ASSUME IInv, UNCHANGED vars
  PROVE  IInv'
BY DEF IInv, vars, account, history, TypeOK, CallOk, Overlaps, DeletionsHold, TreeIsGone, IndexIsKept,
       DraftsAreHeld, Draft, DraftType, Sealed, Readable

LEMMA NextKeeps ==
  ASSUME IInv, [Next]_vars
  PROVE  IInv'
<1>1. ASSUME NEW c \in Callers, NEW op \in {"add", "rotate", "delete", "list"}, NEW n \in Names, Begin(c, op, n)
      PROVE  IInv'
  BY <1>1, BeginKeeps DEF Working, Writing
<1>2. ASSUME NEW c \in Callers, AddSecret(c) \/ RotateSecret(c) \/ DeleteSecret(c) \/ ListSecrets(c)
      PROVE  IInv'
  BY <1>2, LoadKeeps, TakeKeyKeeps, WriteDraftKeeps, ReplaceFileKeeps, ReplaceFails, OverwriteKeeps,
     UnlinkKeeps, SaveIndexKeeps
     DEF AddSecret, RotateSecret, DeleteSecret, ListSecrets
<1>3. ASSUME NEW c \in Callers, BurnKey(c) \/ ShredSecret(c) \/ WipeTree(c) \/ Deregister(c) \/ Crash(c)
      PROVE  IInv'
  BY <1>3, BurnKeyKeeps, ShredSecretKeeps, WipeTreeKeeps, DeregisterKeeps, CrashKeeps
<1>4. CASE Recreate
  BY <1>4, RecreateKeeps
<1>5. CASE UNCHANGED vars
  BY <1>5, StutterKeeps
<1> QED
  BY <1>1, <1>2, <1>3, <1>4, <1>5 DEF Next

LEMMA Invariant == Spec => []IInv
  BY InitHolds, NextKeeps, PTL DEF Spec

\* The types hold: no command holds a key that never existed and no file is sealed with one
\* (secretstore.py _user_key, _write_secret_file).
THEOREM TypeCorrect == Spec => []TypeOK
<1>1. IInv => TypeOK
  BY DEF IInv
<1> QED
  BY <1>1, Invariant, PTL

\* Whatever dies on the way, a name list_secrets shows can be read, as long as commands do
\* not overlap: the file is written before the index (secretstore.py add_secret,
\* rotate_secret).
THEOREM ListedCanBeRead == Spec => []ListedIsReadable
<1>1. IInv => ListedIsReadable
  BY DEF IInv, IndexIsKept, ListedIsReadable, BeingDeleted
<1> QED
  BY <1>1, Invariant, PTL

\* Of a secret reported deleted no file is left under its name until it is stored anew, and no
\* temporary file but those of commands that died before their rename (secretstore.py
\* _write_secret_file, delete_secret).
THEOREM DeletedStaysGone == Spec => []DeletedIsGone
<1>1. IInv => DeletedIsGone
  <2> SUFFICES ASSUME IInv, NEW n \in deleted \ contested
               PROVE  ~Sealed(n) /\ \A d \in drafts : d.name = n => d \in litter
    BY DEF DeletedIsGone
  <2>1. \A c \in Callers : call[c].op \in Storing => Draft(c).name # n
    BY DEF IInv, DeletionsHold, Draft
  <2> QED
    BY <2>1 DEF IInv, DeletionsHold, DraftsAreHeld
<1> QED
  BY <1>1, Invariant, PTL

\* A deletion of the account that completed, after any number that died, leaves no ciphertext
\* and no draft (vault.py delete_user).
THEOREM NothingIsLeft == Spec => []NothingOutlivesTheAccount
<1>1. IInv => NothingOutlivesTheAccount
  BY DEF IInv, TreeIsGone, NothingOutlivesTheAccount
<1> QED
  BY <1>1, Invariant, PTL
==============================================================================
