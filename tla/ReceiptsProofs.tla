--------------------------- MODULE ReceiptsProofs ---------------------------
(***************************************************************************)
(* Proofs about Receipts, for any messages, any number of ingests at once, *)
(* any crashes and any number of days: no message and no transaction is    *)
(* listed twice, what is listed is whole, and a line cut short costs one   *)
(* receipt.                                                                *)
(***************************************************************************)
EXTENDS Receipts, FiniteSetTheorems, SequenceTheorems, TLAPS

USE ReceiptsAssumption

CallType ==
  [at : {"idle", "check", "txn", "mkdir", "first", "second", "append"},
   message : Messages \cup {"none"}, day : 0..MaxDays]
Making == {"first", "second", "append"}   \* its directory is made
Begun == {"mkdir"} \cup Making            \* its checks are done
Checked == {"txn"} \cup Begun             \* the first of them is

(* The strengthening.                                                       *)

\* An ingest has the directory it made, with the files it has written.
CallOk(c) ==
  /\ call[c].at # "idle" => call[c].message \in Messages
  /\ call[c].at \in Making =>
       /\ call[c].day \in Days /\ call[c].day <= day
       /\ dirs[Dir(c)] \in SUBSET Files
  /\ call[c].at = "second" => FilesOf(call[c].message)[1] \in dirs[Dir(c)]
  /\ call[c].at = "append" => dirs[Dir(c)] = Files

\* The directory is its own: nobody else works in it and no line names it.
OwnDirectory ==
  /\ \A c, d \in Callers :
       c # d /\ call[c].at \in Making /\ call[d].at \in Making => Dir(c) # Dir(d)
  /\ \A c \in Callers :
       call[c].at \in Making => Receipt(call[c].message, call[c].day) \notin Listed
  /\ \A i, j \in DOMAIN index : i # j /\ index[i] # Garbage => index[i] # index[j]

\* As long as no ingest of a message sees the date change, all is done on one day.
OnOneDay ==
  \A m \in Messages \ straddled :
    /\ \A c \in Callers :
         /\ call[c].message = m /\ call[c].at \in Making => call[c].day = day
         /\ call[c].message = m /\ call[c].at \in Checked =>
              \A r \in Listed : r.message = m => r.day = day
    /\ \A r, s \in Listed : r.message = m /\ s.message = m => r.day = s.day

\* As long as no two pushes of a transaction run together, the check of one still holds
\* when it lists the transaction.
OneByOne ==
  /\ \A c, d \in Callers :
       c # d /\ call[c].at # "idle" /\ call[d].at # "idle"
         /\ SameTxn(call[c].message, call[d].message) => Txn[call[c].message] \in doubled
  /\ \A c \in Callers :
       call[c].at \in Begun /\ Txn[call[c].message] \notin doubled =>
         \A r \in Listed : ~SameTxn(call[c].message, r.message)
  /\ \A i, j \in DOMAIN index :
       i # j /\ index[i] # Garbage /\ index[j] # Garbage
         /\ SameTxn(index[i].message, index[j].message) => Txn[index[i].message] \in doubled

IInv == TypeOK /\ (\A c \in Callers : CallOk(c)) /\ ListedIsWhole /\ OwnDirectory /\ OnOneDay /\ OneByOne

Kept == (\A c \in Callers : CallOk(c)) /\ ListedIsWhole /\ OwnDirectory /\ OnOneDay /\ OneByOne

-----------------------------------------------------------------------------
(* What the operators do                                                    *)

\* A listed receipt is one of the lines, and is no garbage.
LEMMA ListedAreReceipts ==
  ASSUME TypeOK
  PROVE  /\ Listed \subseteq Receipts
         /\ \A i \in DOMAIN index : index[i] # Garbage => index[i] \in Listed /\ index[i] \in Receipts
         /\ \A r \in Receipts : r # Garbage
<1>1. \A i \in DOMAIN index : index[i] \in Receipts \cup {Garbage}
  BY DEF TypeOK
<1>2. \A r \in Receipts : r # Garbage
  BY DEF Receipts, Garbage, Days
<1> QED
  BY <1>1, <1>2 DEF Listed

\* Writing a line keeps every other line in its place, or loses the last one.
LEMMA WithLineAdds ==
  ASSUME TypeOK, NEW r \in Receipts \cup {Garbage}
  PROVE  /\ WithLine(r) \in Seq(Receipts \cup {Garbage})
         /\ \A i \in DOMAIN WithLine(r) :
              \/ i \in DOMAIN index /\ WithLine(r)[i] = index[i] /\ i # Len(WithLine(r))
              \/ i = Len(WithLine(r)) /\ WithLine(r)[i] \in {r, Garbage}
<1>1. index \in Seq(Receipts \cup {Garbage})
  BY DEF TypeOK
<1>2. CASE ~open
  <2>1. WithLine(r) = Append(index, r)
    BY <1>2 DEF WithLine
  <2> QED
    BY <1>1, <2>1
<1>3. CASE open
  <2>1. WithLine(r) = Append(SubSeq(index, 1, Len(index) - 1), Garbage)
    BY <1>3 DEF WithLine, Front
  <2>2. SubSeq(index, 1, Len(index) - 1) \in Seq(Receipts \cup {Garbage})
    BY <1>1
  <2> QED
    BY <1>1, <2>1, <2>2
<1> QED
  BY <1>2, <1>3 DEF TypeOK

\* The two files of a message.
LEMMA TwoFiles ==
  ASSUME NEW m \in Messages
  PROVE  /\ FilesOf(m)[1] \in Files
         /\ {FilesOf(m)[1]} \cup {FilesOf(m)[2]} = Files
BY DEF FilesOf, Files

\* "absent" is no set of files.
LEMMA NoDirIsNoDirectory == NoDir \notin SUBSET Files
BY DEF NoDir, Files

-----------------------------------------------------------------------------
(* What the steps keep                                                      *)

\* An ingest that ends or dies leaves the others as they are.
LEMMA ReturnKeeps ==
  ASSUME IInv, NEW c \in Callers, Return(c), UNCHANGED <<day, disk, straddled, doubled>>
  PROVE  Kept'
<1>1. call' = [call EXCEPT ![c] = NoCall] /\ call \in [Callers -> CallType]
  BY DEF Return, IInv, TypeOK, CallType
<1>2. call'[c] = NoCall /\ \A d \in Callers \ {c} : call'[d] = call[d]
  BY <1>1
<1>3. NoCall.at = "idle"
  BY DEF NoCall
<1>4. Listed' = Listed /\ dirs' = dirs /\ index' = index /\ day' = day
  BY DEF disk, Listed
<1>5. \A d \in Callers : CallOk(d)'
  BY <1>2, <1>3, <1>4 DEF IInv, CallOk, Making, Dir
<1>6. ListedIsWhole'
  BY <1>4 DEF IInv, ListedIsWhole
<1>7. OwnDirectory'
  BY <1>2, <1>3, <1>4 DEF IInv, OwnDirectory, Making, Dir
<1>8. OnOneDay'
  BY <1>2, <1>3, <1>4 DEF IInv, OnOneDay, Making, Begun, Checked
<1>9. OneByOne'
  BY <1>2, <1>3, <1>4 DEF IInv, OneByOne, Making, Begun
<1> QED
  BY <1>5, <1>6, <1>7, <1>8, <1>9 DEF Kept

\* An ingest that goes on without a directory of its own: the others are as they were.
LEMMA GotoKeeps ==
  ASSUME IInv, NEW c \in Callers, NEW at \in {"txn", "mkdir"}, Goto(c, at), call[c].at # "idle",
         UNCHANGED <<day, disk, straddled, doubled>>,
         call[c].at = "txn" \/ \A r \in Listed : r.message # call[c].message,
         at = "mkdir" => \A r \in Listed : ~SameTxn(call[c].message, r.message)
  PROVE  Kept'
<1>1. call' = [call EXCEPT ![c].at = at] /\ call \in [Callers -> CallType]
  BY DEF Goto, IInv, TypeOK, CallType
<1>2. /\ call'[c].at = at /\ call'[c].message = call[c].message
      /\ \A d \in Callers \ {c} : call'[d] = call[d]
  BY <1>1 DEF CallType
<1>3. Listed' = Listed /\ dirs' = dirs /\ index' = index /\ day' = day
  BY DEF disk, Listed
<1>4. \A d \in Callers : CallOk(d)'
  BY <1>2, <1>3 DEF IInv, CallOk, Making, Dir
<1>5. ListedIsWhole'
  BY <1>3 DEF IInv, ListedIsWhole
<1>6. OwnDirectory'
  BY <1>2, <1>3 DEF IInv, OwnDirectory, Making, Dir
<1>7. OnOneDay'
  BY <1>2, <1>3 DEF IInv, OnOneDay, Making, Begun, Checked
<1>8. OneByOne'
  BY <1>2, <1>3 DEF IInv, OneByOne, Making, Begun
<1> QED
  BY <1>4, <1>5, <1>6, <1>7, <1>8 DEF Kept

LEMMA CheckNewKeeps ==
  ASSUME IInv, NEW c \in Callers, CheckNew(c)
  PROVE  Kept'
<1>1. CASE Return(c)
  BY <1>1, ReturnKeeps DEF CheckNew, history
<1>2. CASE ~Return(c)
  <2> DEFINE at == IF Txn[call[c].message] # NoTxn THEN "txn" ELSE "mkdir"
  <2>1. Goto(c, at) /\ \A r \in Listed : r.message # call[c].message
    BY <1>2 DEF CheckNew
  <2>2. at = "mkdir" => \A r \in Listed : ~SameTxn(call[c].message, r.message)
    BY DEF SameTxn
  <2>3. UNCHANGED <<day, disk, straddled, doubled>> /\ call[c].at # "idle"
    BY DEF CheckNew, history
  <2> QED
    BY <2>1, <2>2, <2>3, GotoKeeps
<1> QED
  BY <1>1, <1>2

LEMMA CheckTxnKeeps ==
  ASSUME IInv, NEW c \in Callers, CheckTxn(c)
  PROVE  Kept'
<1>1. CASE Return(c)
  BY <1>1, ReturnKeeps DEF CheckTxn, history
<1>2. CASE ~Return(c)
  <2>1. Goto(c, "mkdir") /\ \A r \in Listed : ~SameTxn(r.message, call[c].message)
    BY <1>2 DEF CheckTxn
  <2>2. UNCHANGED <<day, disk, straddled, doubled>> /\ call[c].at = "txn"
    BY DEF CheckTxn, history
  <2> QED
    BY <2>1, <2>2, GotoKeeps DEF SameTxn
<1> QED
  BY <1>1, <1>2

LEMMA MakeDirKeeps ==
  ASSUME IInv, NEW c \in Callers, MakeDir(c)
  PROVE  Kept'
<1> DEFINE d == <<call[c].message, day>>
<1>1. CASE Return(c) /\ UNCHANGED dirs
  BY <1>1, ReturnKeeps DEF MakeDir, history, disk
<1>2. CASE /\ dirs[d] = NoDir /\ dirs' = [dirs EXCEPT ![d] = {}]
           /\ call' = [call EXCEPT ![c].at = "first", ![c].day = day]
  <2>1. /\ call \in [Callers -> CallType] /\ dirs \in [Messages \X Days -> (SUBSET Files) \cup {NoDir}]
        /\ day \in Days /\ call[c].at = "mkdir" /\ call[c].message \in Messages
    BY DEF IInv, TypeOK, CallType, CallOk, MakeDir
  <2>2. /\ call'[c].at = "first" /\ call'[c].message = call[c].message /\ call'[c].day = day
        /\ \A e \in Callers \ {c} : call'[e] = call[e]
    BY <1>2, <2>1 DEF CallType
  <2>3. d \in Messages \X Days /\ dirs'[d] = {}
        /\ \A x \in Messages \X Days : x # d => dirs'[x] = dirs[x]
    BY <1>2, <2>1
  <2>4. UNCHANGED <<day, index, straddled, doubled>> /\ Listed' = Listed
    BY DEF MakeDir, history, Listed
  \* Whoever has a directory has another one.
  <2>5. \A e \in Callers : call[e].at \in Making => Dir(e) # d /\ Dir(e) \in Messages \X Days
    <3>1. \A e \in Callers : call[e].at \in Making => dirs[Dir(e)] \in SUBSET Files
                               /\ call[e].message \in Messages /\ call[e].day \in Days
      BY DEF IInv, CallOk, Making
    <3> QED
      BY <1>2, <3>1, NoDirIsNoDirectory DEF Dir
  <2>6. \A r \in Listed : <<r.message, r.day>> # d /\ <<r.message, r.day>> \in Messages \X Days
    <3>1. \A r \in Listed : dirs[<<r.message, r.day>>] = Files /\ r \in Receipts
      BY ListedAreReceipts DEF IInv, ListedIsWhole
    <3> QED
      BY <1>2, <3>1, NoDirIsNoDirectory DEF Receipts
  <2>7. \A e \in Callers : CallOk(e)'
    <3>1. CallOk(c)'
      BY <2>1, <2>2, <2>3, <2>4 DEF CallOk, Making, Dir, Days
    <3>2. ASSUME NEW e \in Callers \ {c} PROVE CallOk(e)'
      BY <2>2, <2>3, <2>4, <2>5 DEF IInv, CallOk, Making, Dir
    <3> QED
      BY <3>1, <3>2
  <2>8. ListedIsWhole'
    <3>1. \A r \in Listed : dirs'[<<r.message, r.day>>] = dirs[<<r.message, r.day>>]
      BY <2>3, <2>6
    <3> QED
      BY <2>4, <3>1 DEF IInv, ListedIsWhole
  <2>9. OwnDirectory'
    <3>1. Receipt(call[c].message, day) \notin Listed
      BY <2>6 DEF Receipt
    <3>2. Dir(c)' = d /\ \A e \in Callers \ {c} : Dir(e)' = Dir(e)
      BY <2>2 DEF Dir
    <3>3. \A e, f \in Callers :
            e # f /\ call'[e].at \in Making /\ call'[f].at \in Making => Dir(e)' # Dir(f)'
      BY <2>2, <2>5, <3>2 DEF IInv, OwnDirectory
    <3>4. \A e \in Callers :
            call'[e].at \in Making => Receipt(call'[e].message, call'[e].day) \notin Listed
      BY <2>2, <3>1 DEF IInv, OwnDirectory
    <3> QED
      BY <2>4, <3>3, <3>4 DEF IInv, OwnDirectory
  <2>10. OnOneDay'
    BY <2>1, <2>2, <2>4 DEF IInv, OnOneDay, Making, Begun, Checked
  <2>11. OneByOne'
    BY <2>1, <2>2, <2>4 DEF IInv, OneByOne, Making, Begun
  <2> QED
    BY <2>7, <2>8, <2>9, <2>10, <2>11 DEF Kept
<1> QED
  BY <1>1, <1>2 DEF MakeDir

\* The two writes, into the ingest's own directory.
LEMMA WriteKeeps ==
  ASSUME IInv, NEW c \in Callers, WriteFirst(c) \/ WriteSecond(c)
  PROVE  Kept'
<1>1. /\ call \in [Callers -> CallType] /\ dirs \in [Messages \X Days -> (SUBSET Files) \cup {NoDir}]
      /\ call[c].at \in {"first", "second"} /\ call[c].message \in Messages /\ call[c].day \in Days
      /\ dirs[Dir(c)] \in SUBSET Files
  BY DEF IInv, TypeOK, CallType, CallOk, Making, WriteFirst, WriteSecond
<1>2. /\ call'[c].at = IF call[c].at = "first" THEN "second" ELSE "append"
      /\ call'[c].message = call[c].message /\ call'[c].day = call[c].day
      /\ \A e \in Callers \ {c} : call'[e] = call[e]
  BY <1>1 DEF WriteFirst, WriteSecond, Goto, CallType
<1>3. UNCHANGED <<day, index, straddled, doubled>> /\ Listed' = Listed
  BY DEF WriteFirst, WriteSecond, history, Listed
<1>4. /\ Dir(c) \in Messages \X Days
      /\ \A x \in Messages \X Days : x # Dir(c) => dirs'[x] = dirs[x]
  BY <1>1 DEF WriteFirst, WriteSecond, Dir
<1>5. /\ call[c].at = "first" => dirs'[Dir(c)] = dirs[Dir(c)] \cup {FilesOf(call[c].message)[1]}
      /\ call[c].at = "second" => dirs'[Dir(c)] = dirs[Dir(c)] \cup {FilesOf(call[c].message)[2]}
  BY <1>1, <1>4 DEF WriteFirst, WriteSecond
<1>6. \A e \in Callers \ {c} :
        call[e].at \in Making => Dir(e) # Dir(c) /\ Dir(e) \in Messages \X Days
  BY <1>1 DEF IInv, OwnDirectory, CallOk, Making, Dir
<1>7. \A r \in Listed :
        <<r.message, r.day>> # Dir(c) /\ <<r.message, r.day>> \in Messages \X Days
  <2>1. \A r \in Listed : r \in Receipts
    BY ListedAreReceipts DEF IInv
  <2>2. Receipt(call[c].message, call[c].day) \notin Listed
    BY <1>1 DEF IInv, OwnDirectory, Making
  <2>3. \A r \in Receipts : r = Receipt(r.message, r.day)
    BY DEF Receipts, Receipt
  <2> QED
    BY <2>1, <2>2, <2>3 DEF Receipts, Dir
<1>8. \A e \in Callers : CallOk(e)'
  <2>1. CallOk(c)'
    <3>1. Dir(c)' = Dir(c)
      BY <1>2 DEF Dir
    <3>2. call[c].at = "second" => FilesOf(call[c].message)[1] \in dirs[Dir(c)]
      BY DEF IInv, CallOk
    <3>3. dirs'[Dir(c)] \in SUBSET Files /\ (call[c].at = "second" => dirs'[Dir(c)] = Files)
          /\ (call[c].at = "first" => FilesOf(call[c].message)[1] \in dirs'[Dir(c)])
      <4> DEFINE f == FilesOf(call[c].message)
      <4>1. {f[1]} \cup {f[2]} = Files
        BY <1>1, TwoFiles
      <4>2. CASE call[c].at = "first"
        <5>1. dirs'[Dir(c)] = dirs[Dir(c)] \cup {f[1]} /\ f = FilesOf(call[c].message)
          BY <1>5, <4>2
        <5> HIDE DEF f
        <5>2. f[1] \in Files
          BY <4>1
        <5> QED
          BY <1>1, <4>2, <5>1, <5>2
      <4>3. CASE call[c].at = "second"
        <5>1. dirs'[Dir(c)] = dirs[Dir(c)] \cup {f[2]} /\ f[1] \in dirs[Dir(c)]
          BY <1>5, <3>2, <4>3
        <5> HIDE DEF f
        <5> QED
          BY <1>1, <4>1, <4>3, <5>1
      <4> QED
        BY <1>1, <4>2, <4>3
    <3>4. call[c].day <= day
      BY <1>1 DEF IInv, CallOk, Making
    <3> QED
      BY <1>1, <1>2, <1>3, <3>1, <3>3, <3>4 DEF CallOk, Making
  <2>2. ASSUME NEW e \in Callers \ {c} PROVE CallOk(e)'
    BY <1>2, <1>3, <1>4, <1>6 DEF IInv, CallOk, Making, Dir
  <2> QED
    BY <2>1, <2>2
<1>9. ListedIsWhole'
  <2>1. \A r \in Listed : dirs'[<<r.message, r.day>>] = dirs[<<r.message, r.day>>]
    BY <1>4, <1>7
  <2> QED
    BY <1>3, <2>1 DEF IInv, ListedIsWhole
<1>10. OwnDirectory'
  <2>1. \A e \in Callers :
          /\ Dir(e)' = Dir(e) /\ (call'[e].at \in Making <=> call[e].at \in Making)
          /\ call'[e].message = call[e].message /\ call'[e].day = call[e].day
    BY <1>1, <1>2 DEF Dir, Making
  <2> QED
    BY <1>3, <2>1 DEF IInv, OwnDirectory
<1>11. OnOneDay'
  BY <1>1, <1>2, <1>3 DEF IInv, OnOneDay, Making, Begun, Checked
<1>12. OneByOne'
  BY <1>1, <1>2, <1>3 DEF IInv, OneByOne, Making, Begun
<1> QED
  BY <1>8, <1>9, <1>10, <1>11, <1>12 DEF Kept

\* The line an ingest appends, whole or torn, names its own directory and no other line
\* names that.
LEMMA ListKeeps ==
  ASSUME IInv, NEW c \in Callers, call[c].at = "append", Return(c),
         NEW line \in {Garbage, Receipt(call[c].message, call[c].day)}, index' = WithLine(line),
         UNCHANGED <<day, dirs, straddled, doubled>>
  PROVE  Kept'
<1> DEFINE rec == Receipt(call[c].message, call[c].day)
<1>1. call' = [call EXCEPT ![c] = NoCall] /\ call \in [Callers -> CallType]
  BY DEF Return, IInv, TypeOK, CallType
<1>2. call'[c] = NoCall /\ \A d \in Callers \ {c} : call'[d] = call[d]
  BY <1>1
<1>3. NoCall.at = "idle"
  BY DEF NoCall
<1>4. /\ call[c].message \in Messages /\ call[c].day \in Days /\ dirs[Dir(c)] = Files
      /\ rec.message = call[c].message /\ rec.day = call[c].day
  BY DEF IInv, CallOk, Making, Receipt
<1>5. rec \in Receipts /\ rec \notin Listed /\ rec # Garbage
  <2>1. rec \in Receipts
    BY <1>4 DEF Receipts, Receipt
  <2> QED
    BY <2>1, ListedAreReceipts DEF IInv, OwnDirectory, Making
<1>6. \A i \in DOMAIN index' :
        \/ i \in DOMAIN index /\ index'[i] = index[i] /\ i # Len(index')
        \/ i = Len(index') /\ index'[i] \in {rec, Garbage}
  BY <1>5, WithLineAdds DEF IInv
<1>7. \A i \in DOMAIN index : index[i] # Garbage => index[i] \in Listed
  BY ListedAreReceipts DEF IInv
<1> HIDE DEF rec
<1>8. Listed' \subseteq Listed \cup {rec}
  BY <1>6, <1>7 DEF Listed
<1>9. \A d \in Callers : CallOk(d)'
  BY <1>2, <1>3 DEF IInv, CallOk, Making, Dir
<1>10. ListedIsWhole'
  BY <1>4, <1>8 DEF IInv, ListedIsWhole, Dir
<1>11. OwnDirectory'
  <2>1. \A d, e \in Callers :
          d # e /\ call'[d].at \in Making /\ call'[e].at \in Making => Dir(d)' # Dir(e)'
    BY <1>2, <1>3 DEF IInv, OwnDirectory, Making, Dir
  <2>2. ASSUME NEW d \in Callers, call'[d].at \in Making
        PROVE  Receipt(call'[d].message, call'[d].day) \notin Listed'
    <3>1. d # c /\ call'[d] = call[d]
      BY <1>2, <1>3, <2>2 DEF Making
    <3>2. Dir(d) # Dir(c) /\ Receipt(call[d].message, call[d].day) \notin Listed
      BY <2>2, <3>1 DEF IInv, OwnDirectory, Making
    <3>3. Receipt(call[d].message, call[d].day) # rec
      BY <1>4, <3>2 DEF Dir, Receipt
    <3> QED
      BY <1>8, <3>1, <3>2, <3>3
  <2>3. ASSUME NEW i \in DOMAIN index', NEW j \in DOMAIN index', i # j, index'[i] # Garbage
        PROVE  index'[i] # index'[j]
    BY <1>5, <1>6, <1>7, <2>3 DEF IInv, OwnDirectory
  <2> QED
    BY <2>1, <2>2, <2>3 DEF OwnDirectory
<1>12. OnOneDay'
  <2> SUFFICES ASSUME NEW m \in Messages \ straddled
               PROVE  /\ \A d \in Callers :
                           /\ call'[d].message = m /\ call'[d].at \in Making => call'[d].day = day
                           /\ call'[d].message = m /\ call'[d].at \in Checked =>
                                \A r \in Listed' : r.message = m => r.day = day
                      /\ \A r, s \in Listed' : r.message = m /\ s.message = m => r.day = s.day
    BY DEF OnOneDay
  <2>1. rec.message = m => rec.day = day /\ \A r \in Listed : r.message = m => r.day = day
    BY ZenonT(60), <1>4 DEF IInv, OnOneDay, Making, Begun, Checked
  <2>2. \A r, s \in Listed : r.message = m /\ s.message = m => r.day = s.day
    BY DEF IInv, OnOneDay
  <2>3. \A d \in Callers \ {c} :
          /\ call[d].message = m /\ call[d].at \in Making => call[d].day = day
          /\ call[d].message = m /\ call[d].at \in Checked =>
               \A r \in Listed : r.message = m => r.day = day
    BY DEF IInv, OnOneDay
  <2> QED
    BY <1>2, <1>3, <1>8, <2>1, <2>2, <2>3 DEF Making, Begun, Checked
<1>13. OneByOne'
  <2>1. \A d, e \in Callers :
          d # e /\ call'[d].at # "idle" /\ call'[e].at # "idle"
            /\ SameTxn(call'[d].message, call'[e].message) => Txn[call'[d].message] \in doubled
    BY <1>2, <1>3 DEF IInv, OneByOne
  <2>2. ASSUME NEW d \in Callers, call'[d].at \in Begun, Txn[call'[d].message] \notin doubled,
               NEW r \in Listed'
        PROVE  ~SameTxn(call'[d].message, r.message)
    <3>1. d # c /\ call'[d] = call[d]
      BY <1>2, <1>3, <2>2 DEF Begun, Making
    <3>2. CASE r \in Listed
      BY <2>2, <3>1, <3>2 DEF IInv, OneByOne
    <3>3. CASE r = rec
      <4>1. call[c].at # "idle" /\ call[d].at # "idle"
        BY <2>2, <3>1 DEF Begun, Making
      <4> QED
        BY <1>4, <2>2, <3>1, <3>3, <4>1 DEF IInv, OneByOne
    <3> QED
      BY <1>8, <3>2, <3>3
  <2>3. ASSUME NEW i \in DOMAIN index', NEW j \in DOMAIN index', i # j,
               index'[i] # Garbage, index'[j] # Garbage,
               SameTxn(index'[i].message, index'[j].message)
        PROVE  Txn[index'[i].message] \in doubled
    <3>1. Txn[rec.message] \notin doubled => \A r \in Listed : ~SameTxn(rec.message, r.message)
      BY <1>4 DEF IInv, OneByOne, Begun, Making
    <3>2. CASE i # Len(index') /\ j # Len(index')
      BY <1>6, <2>3, <3>2 DEF IInv, OneByOne
    <3>3. CASE i = Len(index')
      <4>1. index'[i] = rec /\ index'[j] \in Listed
        BY <1>6, <1>7, <2>3, <3>3
      <4> QED
        BY <2>3, <3>1, <4>1
    <3>4. CASE j = Len(index')
      <4>1. index'[j] = rec /\ index'[i] \in Listed
        BY <1>6, <1>7, <2>3, <3>4
      <4> QED
        BY <2>3, <3>1, <4>1 DEF SameTxn
    <3> QED
      BY <3>2, <3>3, <3>4
  <2> QED
    BY <2>1, <2>2, <2>3 DEF OneByOne
<1> QED
  BY <1>9, <1>10, <1>11, <1>12, <1>13 DEF Kept

\* A new ingest has neither directory nor finished checks; if another of the same
\* transaction runs, the transaction is given up.
LEMMA IngestKeeps ==
  ASSUME IInv, NEW c \in Callers, NEW m \in Messages, Ingest(c, m)
  PROVE  Kept'
<1>1. /\ call'[c].at = "check" /\ call'[c].message = m
      /\ \A d \in Callers \ {c} : call'[d] = call[d]
  BY DEF Ingest, IInv, TypeOK
<1>2. UNCHANGED <<day, dirs, index, straddled>> /\ Listed' = Listed
  BY DEF Ingest, disk, Listed
<1>3. /\ doubled \subseteq doubled'
      /\ \A n \in Messages : SameTxn(m, n) /\ Busy(n) # {} => Txn[m] \in doubled'
  BY DEF Ingest
<1>4. \A d \in Callers : CallOk(d)'
  BY <1>1, <1>2 DEF IInv, CallOk, Making, Dir
<1>5. ListedIsWhole'
  BY <1>2 DEF IInv, ListedIsWhole
<1>6. OwnDirectory'
  BY <1>1, <1>2 DEF IInv, OwnDirectory, Making, Dir
<1>7. OnOneDay'
  BY <1>1, <1>2 DEF IInv, OnOneDay, Making, Begun, Checked
<1>8. OneByOne'
  <2>1. \A d \in Callers \ {c} : call[d].at # "idle" /\ SameTxn(m, call[d].message)
          => Txn[m] \in doubled' /\ Txn[call[d].message] = Txn[m]
    BY <1>3 DEF IInv, CallOk, Busy, SameTxn
  <2>2. \A d, e \in Callers :
          d # e /\ call'[d].at # "idle" /\ call'[e].at # "idle"
            /\ SameTxn(call'[d].message, call'[e].message) => Txn[call'[d].message] \in doubled'
    BY <1>1, <1>3, <2>1 DEF IInv, OneByOne, SameTxn
  <2> QED
    BY <1>1, <1>2, <1>3, <2>2 DEF IInv, OneByOne, Making, Begun
<1> QED
  BY <1>4, <1>5, <1>6, <1>7, <1>8 DEF Kept

LEMMA NextDayKeeps ==
  ASSUME IInv, NextDay
  PROVE  Kept'
<1>1. UNCHANGED <<dirs, index, call, doubled>> /\ Listed' = Listed /\ day' = day + 1 /\ day \in Days
  BY DEF NextDay, disk, Listed, IInv, TypeOK
<1>2. \A d \in Callers : CallOk(d)'
  BY <1>1 DEF IInv, CallOk, Making, Dir, Days
<1>3. ListedIsWhole' /\ OwnDirectory'
  BY <1>1 DEF IInv, ListedIsWhole, OwnDirectory, Dir
<1>4. OnOneDay'
  <2>1. \A m \in Messages \ straddled' : m \notin straddled /\ \A c \in Callers : call[c].message # m
    BY DEF NextDay, Busy
  <2> QED
    BY <1>1, <2>1 DEF IInv, OnOneDay
<1>5. OneByOne'
  BY <1>1 DEF IInv, OneByOne
<1> QED
  BY <1>2, <1>3, <1>4, <1>5 DEF Kept

-----------------------------------------------------------------------------
(* The invariant                                                            *)

LEMMA InitEstablishes == Init => IInv
<1> SUFFICES ASSUME Init PROVE IInv
  OBVIOUS
<1>1. \A c \in Callers : call[c] = NoCall /\ call[c].at = "idle"
  BY DEF Init, NoCall
<1>2. Listed = {}
  BY DEF Init, Listed
<1>3. TypeOK
  <2>1. day \in Days /\ call \in [Callers -> CallType]
    <3>1. NoCall \in CallType
      BY DEF NoCall, CallType
    <3> QED
      BY <3>1 DEF Init, Days
  <2>2. dirs \in [Messages \X Days -> (SUBSET Files) \cup {NoDir}]
    <3>1. dirs = [x \in Messages \X Days |-> NoDir]
      BY DEF Init
    <3>2. NoDir \in (SUBSET Files) \cup {NoDir}
      OBVIOUS
    <3> QED
      BY <3>1, <3>2
  <2>3. index \in Seq(Receipts \cup {Garbage})
    BY DEF Init
  <2>4. ingests \in 0..MaxIngests /\ crashes \in 0..MaxCrashes /\ torn \in 0..crashes
    BY DEF Init
  <2>5. open = FALSE /\ stored = {} /\ straddled = {} /\ doubled = {}
    BY DEF Init
  <2> QED
    BY <2>1, <2>2, <2>3, <2>4, <2>5 DEF TypeOK, CallType
<1>4. (\A c \in Callers : CallOk(c)) /\ ListedIsWhole
  BY <1>1, <1>2 DEF CallOk, Making, ListedIsWhole
<1>5. OwnDirectory /\ OnOneDay /\ OneByOne
  BY <1>1, <1>2 DEF Init, OwnDirectory, OnOneDay, OneByOne, Making, Begun, Checked
<1> QED
  BY <1>3, <1>4, <1>5 DEF IInv

\* The steps of one ingest, whatever sent the message.
Steps(c) ==
  CheckNew(c) \/ CheckTxn(c) \/ MakeDir(c) \/ WriteFirst(c) \/ WriteSecond(c) \/ AppendIndex(c)

LEMMA NextSteps ==
  Next => \/ \E c \in Callers : Steps(c) \/ Crash(c) \/ TearLine(c)
          \/ \E c \in Callers, m \in Messages : Ingest(c, m)
          \/ NextDay
BY DEF Next, Mail, Push, Scan, Steps

LEMMA StepKeepsTypes ==
  ASSUME IInv, [Next]_vars
  PROVE  TypeOK'
<1>1. TypeOK /\ call \in [Callers -> CallType]
  BY DEF IInv, TypeOK, CallType
<1>2. CASE UNCHANGED vars
  BY <1>1, <1>2 DEF vars, TypeOK, disk, history
<1>3. NoCall \in CallType
  BY DEF NoCall, CallType
<1>4. ASSUME NEW c \in Callers, NEW m \in Messages, Ingest(c, m) PROVE TypeOK'
  <2>1. call' \in [Callers -> CallType]
    BY <1>1, <1>4 DEF Ingest, CallType
  <2>2. doubled' \subseteq {Txn[n] : n \in Messages}
    BY <1>1, <1>4 DEF Ingest, TypeOK
  <2>3. UNCHANGED <<day, dirs, index, open, crashes, stored, straddled, torn>>
    BY <1>4 DEF Ingest, disk
  <2>4. ingests' \in 0..MaxIngests
    BY <1>1, <1>4 DEF Ingest, TypeOK
  <2> QED
    BY <1>1, <2>1, <2>2, <2>3, <2>4 DEF TypeOK, CallType
<1>5. ASSUME NEW c \in Callers, CheckNew(c) \/ CheckTxn(c) PROVE TypeOK'
  <2>1. call' \in [Callers -> CallType]
    BY <1>1, <1>3, <1>5 DEF CheckNew, CheckTxn, Return, Goto, CallType
  <2> QED
    BY <1>1, <1>5, <2>1 DEF CheckNew, CheckTxn, TypeOK, CallType, disk, history
<1>6. ASSUME NEW c \in Callers, MakeDir(c) \/ WriteFirst(c) \/ WriteSecond(c) PROVE TypeOK'
  <2>1. call[c] \in CallType /\ call[c].message \in Messages
        /\ (call[c].at \in Making => call[c].day \in Days /\ Dir(c) \in Messages \X Days
                                       /\ dirs[Dir(c)] \in SUBSET Files)
    BY <1>1, <1>6 DEF IInv, CallOk, Making, Dir, MakeDir, WriteFirst, WriteSecond
  <2>2. call' \in [Callers -> CallType]
    <3>1. CASE MakeDir(c)
      <4>1. day \in 0..MaxDays
        BY <1>1 DEF TypeOK, Days
      <4>2. call' \in {[call EXCEPT ![c] = NoCall], [call EXCEPT ![c].at = "first", ![c].day = day]}
        BY <3>1 DEF MakeDir, Return
      <4> QED
        BY <1>1, <1>3, <4>1, <4>2 DEF CallType
    <3>2. CASE WriteFirst(c) \/ WriteSecond(c)
      BY <1>1, <3>2 DEF WriteFirst, WriteSecond, Goto, CallType
    <3> QED
      BY <1>6, <3>1, <3>2
  <2>3. dirs' \in [Messages \X Days -> (SUBSET Files) \cup {NoDir}]
    <3>1. FilesOf(call[c].message)[1] \in Files /\ FilesOf(call[c].message)[2] \in Files
      BY <2>1, TwoFiles
    <3>2. dirs \in [Messages \X Days -> (SUBSET Files) \cup {NoDir}]
      BY <1>1 DEF TypeOK
    <3>3. CASE MakeDir(c)
      <4>1. dirs' \in {dirs, [dirs EXCEPT ![<<call[c].message, day>>] = {}]}
        BY <3>3 DEF MakeDir
      <4> QED
        BY <3>2, <4>1
    <3>4. CASE WriteFirst(c) \/ WriteSecond(c)
      <4> DEFINE with(f) == [dirs EXCEPT ![Dir(c)] = @ \cup {f}]
      <4>1. Dir(c) \in Messages \X Days /\ dirs[Dir(c)] \in SUBSET Files
        BY <2>1, <3>4 DEF WriteFirst, WriteSecond, Making
      <4>2. \A f \in Files : with(f) \in [Messages \X Days -> (SUBSET Files) \cup {NoDir}]
        BY <3>2, <4>1
      <4>3. dirs' = with(FilesOf(call[c].message)[1]) \/ dirs' = with(FilesOf(call[c].message)[2])
        BY <3>4 DEF WriteFirst, WriteSecond
      <4> HIDE DEF with
      <4> QED
        BY <3>1, <4>2, <4>3
    <3> QED
      BY <1>6, <3>3, <3>4
  <2> QED
    BY <1>1, <1>6, <2>2, <2>3 DEF MakeDir, WriteFirst, WriteSecond, TypeOK, CallType, history
<1>7. ASSUME NEW c \in Callers, AppendIndex(c) \/ TearLine(c) PROVE TypeOK'
  <2>1. Receipt(call[c].message, call[c].day) \in {r \in Receipts : r.day <= day}
    BY <1>7 DEF IInv, CallOk, Making, AppendIndex, TearLine, Receipt, Receipts
  <2>2. index' \in Seq(Receipts \cup {Garbage})
    BY <1>1, <1>7, <2>1, WithLineAdds DEF AppendIndex, TearLine
  <2>3. call' \in [Callers -> CallType]
    BY <1>1, <1>3, <1>7 DEF AppendIndex, TearLine, Return
  <2>4. stored' \subseteq {r \in Receipts : r.day <= day} /\ open' \in BOOLEAN
    BY <1>1, <1>7, <2>1 DEF AppendIndex, TearLine, TypeOK
  <2>5. crashes' \in 0..MaxCrashes /\ torn' \in 0..crashes'
    BY <1>1, <1>7 DEF AppendIndex, TearLine, TypeOK
  <2> QED
    BY <1>1, <1>7, <2>2, <2>3, <2>4, <2>5 DEF AppendIndex, TearLine, TypeOK, CallType
<1>8. ASSUME NEW c \in Callers, Crash(c) PROVE TypeOK'
  <2>1. call' \in [Callers -> CallType]
    BY <1>1, <1>3, <1>8 DEF Crash, Return
  <2>2. crashes' \in 0..MaxCrashes /\ torn' \in 0..crashes'
    BY <1>1, <1>8 DEF Crash, TypeOK, history
  <2> QED
    BY <1>1, <1>8, <2>1, <2>2 DEF Crash, TypeOK, CallType, disk, history
<1>9. CASE NextDay
  BY <1>1, <1>9 DEF NextDay, TypeOK, CallType, disk, Days, Receipts
<1> QED
  BY <1>2, <1>4, <1>5, <1>6, <1>7, <1>8, <1>9, NextSteps DEF Steps

LEMMA StepPreserves == IInv /\ [Next]_vars => IInv'
<1> SUFFICES ASSUME IInv, [Next]_vars PROVE Kept'
  BY StepKeepsTypes DEF IInv, Kept
<1>1. CASE UNCHANGED vars
  <2>1. Listed' = Listed /\ UNCHANGED <<day, dirs, index, call, straddled, doubled>>
    BY <1>1 DEF vars, Listed
  <2> QED
    BY <2>1 DEF IInv, Kept, CallOk, ListedIsWhole, OwnDirectory, OnOneDay, OneByOne, Dir
<1>2. ASSUME NEW c \in Callers, Steps(c) PROVE Kept'
  <2>1. CASE AppendIndex(c)
    <3>1. UNCHANGED <<day, dirs, straddled, doubled>> /\ Return(c) /\ call[c].at = "append"
      BY <2>1 DEF AppendIndex
    <3> QED
      BY <2>1, <3>1, ListKeeps DEF AppendIndex
  <2> QED
    BY <1>2, <2>1, CheckNewKeeps, CheckTxnKeeps, MakeDirKeeps, WriteKeeps DEF Steps
<1>3. ASSUME NEW c \in Callers, Crash(c) PROVE Kept'
  BY <1>3, ReturnKeeps DEF Crash, history
<1>4. ASSUME NEW c \in Callers, TearLine(c) PROVE Kept'
  <2>1. PICK line \in {Garbage, Receipt(call[c].message, call[c].day)} : index' = WithLine(line)
    BY <1>4 DEF TearLine
  <2>2. UNCHANGED <<day, dirs, straddled, doubled>> /\ Return(c) /\ call[c].at = "append"
    BY <1>4 DEF TearLine
  <2> QED
    BY <2>1, <2>2, ListKeeps
<1> QED
  BY <1>1, <1>2, <1>3, <1>4, IngestKeeps, NextDayKeeps, NextSteps

-----------------------------------------------------------------------------
\* A set whose members are all equal has at most one.
LEMMA AtMostOne ==
  ASSUME NEW S, \A x, y \in S : x = y
  PROVE  Cardinality(S) <= 1
<1>1. CASE S = {}
  <2>1. Cardinality(S) = 0
    BY <1>1, FS_EmptySet
  <2> QED
    BY <2>1
<1>2. CASE S # {}
  <2>1. PICK x \in S : TRUE
    BY <1>2
  <2>2. S = {x}
    BY <2>1
  <2>3. Cardinality(S) = 1
    BY <2>2, FS_Singleton
  <2> QED
    BY <2>3
<1> QED
  BY <1>1, <1>2

LEMMA InvariantListsOnce == IInv => NoDuplicates
<1> SUFFICES ASSUME IInv PROVE NoDuplicates
  OBVIOUS
<1>1. \A i \in DOMAIN index : index[i] # Garbage =>
        index[i] \in Listed /\ index[i] = Receipt(index[i].message, index[i].day)
  BY ListedAreReceipts DEF IInv, Receipts, Receipt
<1>2. ASSUME NEW m \in Messages \ straddled
      PROVE  Cardinality(Lines(LAMBDA n : n = m)) <= 1
  <2> DEFINE S == {i \in DOMAIN index : index[i] # Garbage /\ index[i].message = m}
  <2>1. ASSUME NEW i \in S, NEW j \in S PROVE i = j
    <3>1. index[i].day = index[j].day
      BY <1>1 DEF IInv, OnOneDay
    <3>2. index[i] = index[j]
      BY <1>1, <3>1
    <3> QED
      BY <3>2 DEF IInv, OwnDirectory
  <2>2. Cardinality(S) <= 1
    BY <2>1, AtMostOne
  <2> QED
    BY <2>2 DEF Lines
<1>3. ASSUME NEW t \in {Txn[m] : m \in Messages} \ (doubled \cup {NoTxn})
      PROVE  Cardinality(Lines(LAMBDA n : Txn[n] = t)) <= 1
  <2> DEFINE S == {i \in DOMAIN index : index[i] # Garbage /\ Txn[index[i].message] = t}
  <2>1. \A i, j \in S : i = j
    BY DEF IInv, OneByOne, SameTxn
  <2>2. Cardinality(S) <= 1
    BY <2>1, AtMostOne
  <2> QED
    BY <2>2 DEF Lines
<1> QED
  BY <1>2, <1>3 DEF NoDuplicates, ListedOnce, TransactionOnce

-----------------------------------------------------------------------------
(* What a line cut short costs.                                             *)

\* What was reported stored has its directory, so no ingest under way can store it again;
\* a line cut short is charged at once, before the receipt that will be glued to it.
TearsPay ==
  /\ \A r \in stored : dirs[<<r.message, r.day>>] # NoDir
  /\ \A c \in Callers :
       call[c].at \in Making => Receipt(call[c].message, call[c].day) \notin stored
  /\ open => index # << >> /\ index[Len(index)] \notin stored
  /\ IsFiniteSet(stored)
  /\ Cardinality(stored \ Listed) + (IF open THEN 1 ELSE 0) <= torn

\* A line is the last one, glued to the last if that one was cut; every other line stays.
LEMMA WithLineEnds ==
  ASSUME TypeOK, open => index # << >>, NEW r \in Receipts \cup {Garbage}
  PROVE  /\ WithLine(r) # << >>
         /\ WithLine(r)[Len(WithLine(r))] = (IF open THEN Garbage ELSE r)
         /\ \A i \in DOMAIN index :
              ~open \/ i # Len(index) => i \in DOMAIN WithLine(r) /\ WithLine(r)[i] = index[i]
         /\ ~open => Len(index) + 1 \in DOMAIN WithLine(r) /\ WithLine(r)[Len(index) + 1] = r
<1>1. index \in Seq(Receipts \cup {Garbage})
  BY DEF TypeOK
<1>2. CASE ~open
  <2>1. WithLine(r) = Append(index, r)
    BY <1>2 DEF WithLine
  <2> QED
    BY <1>1, <1>2, <2>1
<1>3. CASE open
  <2>1. PICK n \in Nat \ {0} : n = Len(index)
    BY <1>1, <1>3
  <2>2. PICK front : front = SubSeq(index, 1, n - 1)
    OBVIOUS
  <2>3. /\ front \in Seq(Receipts \cup {Garbage}) /\ Len(front) = n - 1
        /\ \A i \in 1 .. n - 1 : front[i] = index[i]
    <3>1. \A i \in 1 .. n - 1 : index[i] \in Receipts \cup {Garbage}
      BY <1>1, <2>1
    <3>2. /\ front \in Seq(Receipts \cup {Garbage})
          /\ Len(front) = IF 1 <= n - 1 THEN n - 1 - 1 + 1 ELSE 0
          /\ \A i \in 1 .. n - 1 - 1 + 1 : front[i] = index[1 + i - 1]
      BY <2>2, <3>1, SubSeqProperties
    <3> QED
      BY <3>2
  <2>4. WithLine(r) = Append(front, Garbage)
    BY <1>3, <2>1, <2>2 DEF WithLine, Front
  <2>5. /\ DOMAIN WithLine(r) = 1 .. n /\ Len(WithLine(r)) = n /\ WithLine(r)[n] = Garbage
        /\ \A i \in 1 .. n - 1 : WithLine(r)[i] = index[i]
    BY <2>3, <2>4
  <2>6. DOMAIN index = 1 .. n /\ WithLine(r) # << >>
    BY <1>1, <2>1, <2>5
  <2> QED
    BY <1>3, <2>1, <2>5, <2>6
<1> QED
  BY <1>2, <1>3

\* A step that leaves the index alone and gives an ingest no directory but a new one.
LEMMA QuietStepPays ==
  ASSUME IInv, TearsPay, UNCHANGED <<index, open, stored, torn>>,
         \A r \in stored : dirs[<<r.message, r.day>>] # NoDir => dirs'[<<r.message, r.day>>] # NoDir,
         \A c \in Callers : call'[c].at \in Making =>
            \/ /\ call[c].at \in Making
               /\ call'[c].message = call[c].message /\ call'[c].day = call[c].day
            \/ dirs[<<call'[c].message, call'[c].day>>] = NoDir
  PROVE  TearsPay'
<1>1. Listed' = Listed
  BY DEF Listed
<1>2. ASSUME NEW c \in Callers, call'[c].at \in Making
      PROVE  Receipt(call'[c].message, call'[c].day) \notin stored
  <2>1. CASE call[c].at \in Making /\ call'[c].message = call[c].message /\ call'[c].day = call[c].day
    BY <2>1 DEF TearsPay
  <2>2. CASE dirs[<<call'[c].message, call'[c].day>>] = NoDir
    <3>1. PICK r : r = Receipt(call'[c].message, call'[c].day)
      OBVIOUS
    <3>2. r.message = call'[c].message /\ r.day = call'[c].day
      BY <3>1 DEF Receipt
    <3> QED
      BY <2>2, <3>1, <3>2 DEF TearsPay
  <2> QED
    BY <1>2, <2>1, <2>2
<1> QED
  BY <1>1, <1>2 DEF TearsPay

\* Every step but the write of a line is one.
LEMMA OtherStepsPay ==
  ASSUME IInv, TearsPay, NEW c \in Callers, NEW m,
         \/ Ingest(c, m) \/ CheckNew(c) \/ CheckTxn(c) \/ MakeDir(c)
         \/ WriteFirst(c) \/ WriteSecond(c) \/ Crash(c) \/ NextDay
  PROVE  TearsPay'
<1>1. /\ call \in [Callers -> CallType] /\ dirs \in [Messages \X Days -> (SUBSET Files) \cup {NoDir}]
      /\ day \in Days /\ stored \subseteq Receipts
  BY DEF IInv, TypeOK, CallType
<1>2. UNCHANGED <<index, open, stored, torn>>
  BY DEF Ingest, CheckNew, CheckTxn, MakeDir, WriteFirst, WriteSecond, Crash, NextDay, disk, history
<1>3. NoCall.at \notin Making /\ "check" \notin Making /\ "txn" \notin Making /\ "mkdir" \notin Making
  BY DEF NoCall, Making
<1>4. CASE NextDay
  <2>1. call' = call /\ dirs' = dirs
    BY <1>4 DEF NextDay, disk
  <2> QED
    BY <1>2, <2>1, QuietStepPays
<1>5. CASE Ingest(c, m) \/ CheckNew(c) \/ CheckTxn(c) \/ Crash(c)
  <2>1. dirs' = dirs
    BY <1>5 DEF Ingest, CheckNew, CheckTxn, Crash, disk
  <2>2. \A d \in Callers : call'[d].at \in Making => call'[d] = call[d]
    <3>1. \/ call' = [call EXCEPT ![c] = [at |-> "check", message |-> m, day |-> 0]]
          \/ call' = [call EXCEPT ![c] = NoCall]
          \/ call' = [call EXCEPT ![c].at = "txn"]
          \/ call' = [call EXCEPT ![c].at = "mkdir"]
      BY <1>5 DEF Ingest, CheckNew, CheckTxn, Crash, Return, Goto
    <3>2. call'[c].at \notin Making /\ \A d \in Callers \ {c} : call'[d] = call[d]
      BY <1>1, <1>3, <3>1 DEF CallType
    <3> QED
      BY <3>2
  <2> QED
    BY <1>2, <2>1, <2>2, QuietStepPays
<1>6. CASE MakeDir(c)
  <2>1. CASE Return(c) /\ UNCHANGED dirs
    <3>1. call' = [call EXCEPT ![c] = NoCall]
      BY <2>1 DEF Return
    <3>2. \A d \in Callers : call'[d].at \in Making => call'[d] = call[d]
      BY <1>1, <1>3, <3>1
    <3> QED
      BY <1>2, <2>1, <3>2, QuietStepPays
  <2>2. CASE /\ dirs[<<call[c].message, day>>] = NoDir
             /\ dirs' = [dirs EXCEPT ![<<call[c].message, day>>] = {}]
             /\ call' = [call EXCEPT ![c].at = "first", ![c].day = day]
    <3>1. /\ call'[c].message = call[c].message /\ call'[c].day = day
          /\ \A d \in Callers \ {c} : call'[d] = call[d]
      BY <1>1, <2>2 DEF CallType
    <3>2. {} # NoDir
      BY DEF NoDir
    <3>3. \A x \in Messages \X Days : dirs[x] # NoDir => dirs'[x] # NoDir
      BY <1>1, <2>2, <3>2
    <3>4. \A r \in stored : <<r.message, r.day>> \in Messages \X Days
      BY <1>1 DEF Receipts
    <3>5. \A d \in Callers : call'[d].at \in Making =>
            call'[d] = call[d] \/ dirs[<<call'[d].message, call'[d].day>>] = NoDir
      BY <2>2, <3>1
    <3> QED
      BY <1>2, <3>3, <3>4, <3>5, QuietStepPays
  <2> QED
    BY <1>6, <2>1, <2>2 DEF MakeDir
<1>7. CASE WriteFirst(c) \/ WriteSecond(c)
  <2>1. /\ call[c].at \in Making /\ call[c].message \in Messages
        /\ Dir(c) \in Messages \X Days /\ dirs[Dir(c)] \in SUBSET Files
    BY <1>1, <1>7 DEF IInv, CallOk, Making, Dir, WriteFirst, WriteSecond
  <2>2. PICK f : dirs' = [dirs EXCEPT ![Dir(c)] = @ \cup {f}] /\ f \in Files
    BY <1>7, <2>1, TwoFiles DEF WriteFirst, WriteSecond
  <2>3. dirs[Dir(c)] \cup {f} # NoDir
    BY <2>1, <2>2, NoDirIsNoDirectory
  <2>4. \A x \in Messages \X Days : dirs[x] # NoDir => dirs'[x] # NoDir
    BY <1>1, <2>1, <2>2, <2>3
  <2>5. \A r \in stored : <<r.message, r.day>> \in Messages \X Days
    BY <1>1 DEF Receipts
  <2>6. /\ call'[c].message = call[c].message /\ call'[c].day = call[c].day
        /\ \A d \in Callers \ {c} : call'[d] = call[d]
    BY <1>1, <1>7 DEF WriteFirst, WriteSecond, Goto, CallType
  <2> QED
    BY <1>2, <2>1, <2>4, <2>5, <2>6, QuietStepPays
<1> QED
  BY <1>4, <1>5, <1>6, <1>7

\* A line written whole, or cut short.
LEMMA LineWritesPay ==
  ASSUME IInv, TearsPay, NEW c \in Callers, AppendIndex(c) \/ TearLine(c)
  PROVE  TearsPay'
<1>1. /\ TypeOK /\ index \in Seq(Receipts \cup {Garbage}) /\ stored \subseteq Receipts
      /\ open \in BOOLEAN /\ torn \in Nat /\ call \in [Callers -> CallType]
  BY DEF IInv, TypeOK, CallType
<1>2. PICK r : r = Receipt(call[c].message, call[c].day)
  OBVIOUS
<1>3. call[c].at \in Making /\ call[c].message \in Messages /\ call[c].day \in Days
      /\ dirs[<<call[c].message, call[c].day>>] = Files
  BY DEF IInv, CallOk, Making, Dir, AppendIndex, TearLine
<1>4. r \in Receipts /\ r \notin stored /\ r # Garbage /\ dirs[<<r.message, r.day>>] = Files
  BY <1>1, <1>2, <1>3, ListedAreReceipts DEF TearsPay, Receipts, Receipt
<1>5. \A x \in stored : x # Garbage
  BY <1>1, ListedAreReceipts
<1>6. PICK line \in {r, Garbage} : index' = WithLine(line) /\ (AppendIndex(c) => line = r)
  BY <1>2 DEF AppendIndex, TearLine
<1>7. /\ index' # << >> /\ index'[Len(index')] = (IF open THEN Garbage ELSE line)
      /\ \A i \in DOMAIN index :
           ~open \/ i # Len(index) => i \in DOMAIN index' /\ index'[i] = index[i]
      /\ ~open => Len(index) + 1 \in DOMAIN index' /\ index'[Len(index) + 1] = line
  <2>1. line \in Receipts \cup {Garbage} /\ (open => index # << >>)
    BY <1>4 DEF TearsPay
  <2> QED
    BY <1>1, <1>6, <2>1, WithLineEnds
\* What was stored and could be listed still can.
<1>8. \A x \in stored : x \in Listed => x \in Listed'
  <2>1. SUFFICES ASSUME NEW x \in stored, x \in Listed PROVE x \in Listed'
    OBVIOUS
  <2>2. PICK i \in DOMAIN index : index[i] = x
    BY <2>1 DEF Listed
  <2>3. ~open \/ i # Len(index)
    BY <2>1, <2>2 DEF TearsPay
  <2>4. i \in DOMAIN index' /\ index'[i] = x
    BY <1>7, <2>2, <2>3
  <2> QED
    BY <1>5, <2>4 DEF Listed
<1>9. dirs' = dirs /\ call' = [call EXCEPT ![c] = NoCall]
  BY DEF AppendIndex, TearLine, Return
<1>10. \A d \in Callers : call'[d].at \in Making => d # c /\ call'[d] = call[d]
  BY <1>1, <1>9 DEF NoCall, Making
<1>11. PICK lost : lost = stored \ Listed
  OBVIOUS
<1>12. IsFiniteSet(lost) /\ Cardinality(lost) \in Nat
       /\ Cardinality(lost) + (IF open THEN 1 ELSE 0) <= torn
  BY <1>11, FS_Subset, FS_CardinalityType DEF TearsPay
<1>13. PICK lost2 : lost2 = stored' \ Listed'
  OBVIOUS
<1>14. CASE TearLine(c)
  <2>1. stored' = stored /\ open' = TRUE /\ torn' = torn + 1
    BY <1>14 DEF TearLine
  <2>2. lost2 \in SUBSET lost
    BY <1>8, <1>11, <1>13, <2>1
  <2>3. IsFiniteSet(lost2) /\ Cardinality(lost2) <= Cardinality(lost)
    BY <1>12, <2>2, FS_Subset
  <2>4. Cardinality(lost2) \in Nat
    BY <2>3, FS_CardinalityType
  <2>5. Cardinality(lost2) + 1 <= torn'
    BY <1>1, <1>12, <2>1, <2>3, <2>4
  <2>6. index'[Len(index')] \notin stored'
    BY <1>4, <1>5, <1>7, <2>1
  <2>7. \A d \in Callers :
          call'[d].at \in Making => Receipt(call'[d].message, call'[d].day) \notin stored'
    BY <1>10, <2>1 DEF TearsPay
  <2>8. (\A x \in stored' : dirs'[<<x.message, x.day>>] # NoDir) /\ IsFiniteSet(stored')
    BY <1>9, <2>1 DEF TearsPay
  <2> QED
    BY <1>7, <1>13, <2>1, <2>5, <2>6, <2>7, <2>8 DEF TearsPay
<1>15. CASE AppendIndex(c)
  <2>1. stored' = stored \cup {r} /\ open' = FALSE /\ torn' = torn
    BY <1>2, <1>15 DEF AppendIndex
  <2>2. \A d \in Callers :
          call'[d].at \in Making => Receipt(call'[d].message, call'[d].day) \notin stored'
    <3>1. ASSUME NEW d \in Callers, call'[d].at \in Making
          PROVE  Receipt(call[d].message, call[d].day) # r
      <4>1. d # c /\ call[d].at \in Making
        BY <1>10, <3>1
      <4>2. Dir(d) # Dir(c)
        BY <1>3, <4>1 DEF IInv, OwnDirectory
      <4> QED
        BY <1>2, <4>2 DEF Dir, Receipt
    <3> QED
      BY <1>10, <2>1, <3>1 DEF TearsPay
  <2>3. \A x \in stored' : dirs'[<<x.message, x.day>>] # NoDir
    BY <1>4, <1>9, <2>1, NoDirIsNoDirectory DEF TearsPay
  <2>4. IsFiniteSet(stored')
    BY <2>1, FS_AddElement DEF TearsPay
  <2>5. IsFiniteSet(lost2) /\ Cardinality(lost2) <= torn
    <3>1. CASE ~open
      <4>1. r \in Listed'
        BY <1>4, <1>6, <1>7, <1>15, <3>1 DEF Listed
      <4>2. lost2 \in SUBSET lost
        BY <1>8, <1>11, <1>13, <2>1, <4>1
      <4>3. IsFiniteSet(lost2) /\ Cardinality(lost2) <= Cardinality(lost)
        BY <1>12, <4>2, FS_Subset
      <4>4. Cardinality(lost2) \in Nat
        BY <4>3, FS_CardinalityType
      <4> QED
        BY <1>1, <1>12, <3>1, <4>3, <4>4
    <3>2. CASE open
      <4>1. PICK more : more = lost \cup {r}
        OBVIOUS
      <4>2. /\ IsFiniteSet(more)
            /\ Cardinality(more) = IF r \in lost THEN Cardinality(lost) ELSE Cardinality(lost) + 1
        BY <1>12, <4>1, FS_AddElement
      <4>3. lost2 \in SUBSET more
        BY <1>8, <1>11, <1>13, <2>1, <4>1
      <4>4. IsFiniteSet(lost2) /\ Cardinality(lost2) <= Cardinality(more)
        BY <4>2, <4>3, FS_Subset
      <4>5. Cardinality(lost2) \in Nat
        BY <4>4, FS_CardinalityType
      <4> QED
        BY <1>1, <1>12, <3>2, <4>2, <4>4, <4>5
    <3> QED
      BY <3>1, <3>2
  <2>6. Cardinality(lost2) \in Nat
    BY <2>5, FS_CardinalityType
  <2> QED
    BY <1>13, <2>1, <2>2, <2>3, <2>4, <2>5, <2>6 DEF TearsPay
<1> QED
  BY <1>14, <1>15

\* Every step leaves the tears with their price paid.
LEMMA StepPays == IInv /\ TearsPay /\ [Next]_vars => TearsPay'
<1> SUFFICES ASSUME IInv, TearsPay, [Next]_vars PROVE TearsPay'
  OBVIOUS
<1>1. CASE UNCHANGED vars
  <2>1. Listed' = Listed
    BY <1>1 DEF vars, Listed
  <2> QED
    BY <1>1, <2>1 DEF vars, TearsPay
<1>2. ASSUME NEW c \in Callers, Steps(c) \/ Crash(c) \/ TearLine(c) PROVE TearsPay'
  <2>1. CASE AppendIndex(c) \/ TearLine(c)
    BY <2>1, LineWritesPay
  <2>2. CASE ~(AppendIndex(c) \/ TearLine(c))
    BY <1>2, <2>2, OtherStepsPay DEF Steps
  <2> QED
    BY <2>1, <2>2
<1>3. ASSUME NEW c \in Callers, NEW m \in Messages, Ingest(c, m) PROVE TearsPay'
  BY <1>3, OtherStepsPay
<1>4. CASE NextDay
  <2>1. /\ call' = call /\ dirs' = dirs /\ UNCHANGED <<index, open, stored, torn>>
    BY <1>4 DEF NextDay, disk
  <2> QED
    BY <2>1, QuietStepPays
<1> QED
  BY <1>1, <1>2, <1>3, <1>4, NextSteps

\* The directories, the index and every ingest keep their types: in particular the index
\* only ever holds receipts and lines that were cut.
THEOREM TypeCorrect == Spec => []TypeOK
<1>1. IInv => TypeOK
  BY DEF IInv
<1> QED
  BY <1>1, InitEstablishes, StepPreserves, PTL DEF Spec

\* No message and no transaction is ever listed twice (receipts.py ingest, poshook.py
\* ingest, scan.py ingest), whoever retries and dies; the exceptions are those of NoDuplicates.
THEOREM RetriesNeverCreateDupes == Spec => []NoDuplicates
BY InitEstablishes, StepPreserves, InvariantListsOnce, PTL DEF Spec

\* Whatever is listed has both its files (receipts.py:217-265, poshook.py:205-231).
THEOREM ListedReceiptsAreWhole == Spec => []ListedIsWhole
<1>1. IInv => ListedIsWhole
  BY DEF IInv
<1> QED
  BY <1>1, InitEstablishes, StepPreserves, PTL DEF Spec

\* A receipt reported stored is in the list, but for one for each line that was cut short:
\* the one glued to it (receipts.py:262-265; the other two append as it does).
THEOREM TornLinesCostOneReceiptEach == Spec => []TornLineCostsOneReceipt
<1>1. Init => TearsPay
  <2> SUFFICES ASSUME Init PROVE TearsPay
    OBVIOUS
  <2>1. stored = {} /\ open = FALSE /\ torn = 0 /\ stored \ Listed = {}
    BY DEF Init
  <2> QED
    BY <2>1, FS_EmptySet DEF TearsPay
<1>2. IInv /\ TearsPay => TornLineCostsOneReceipt
  <2> SUFFICES ASSUME IInv, TearsPay PROVE Cardinality(stored \ Listed) <= torn
    BY DEF TornLineCostsOneReceipt
  <2>1. PICK lost : lost = stored \ Listed
    OBVIOUS
  <2>2. IsFiniteSet(lost) /\ Cardinality(lost) \in Nat /\ torn \in Nat
    BY <2>1, FS_Subset, FS_CardinalityType DEF TearsPay, IInv, TypeOK
  <2>3. Cardinality(lost) + (IF open THEN 1 ELSE 0) <= torn
    BY <2>1 DEF TearsPay
  <2> QED
    BY <2>1, <2>2, <2>3
<1> QED
  BY <1>1, <1>2, InitEstablishes, StepPreserves, StepPays, PTL DEF Spec
=============================================================================
