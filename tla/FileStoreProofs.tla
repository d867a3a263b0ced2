--------------------------- MODULE FileStoreProofs ---------------------------
(* What FileStore promises for every number of requests, owners, names and  *)
(* contents.  The bytes theorem needs one thing of the environment: an      *)
(* INSERT that reports an error while its context is live has no effect.    *)
EXTENDS FileStore, TLAPS

LEMMA NameOps ==
  /\ \A b \in Name, n \in Nat : dedupedName(b, n) \in Name
  /\ \A b \in Name, n \in 1..(MaxDedup + 1) : Candidate(b, n) \in Name
  /\ Filename \subseteq Name
<1>1. ASSUME NEW b \in Name, NEW n \in Nat PROVE dedupedName(b, n) \in Name
  <2>1. b.suffix \in Seq(Nat) /\ b.stem \in Stem
    BY DEF Name
  <2>2. Append(b.suffix, n) \in Seq(Nat)
    BY <2>1
  <2> QED
    BY <2>1, <2>2 DEF dedupedName, Name
<1>2. ASSUME NEW b \in Name, NEW n \in 1..(MaxDedup + 1) PROVE Candidate(b, n) \in Name
  <2>1. n = 1 \/ n - 1 \in Nat
    BY FileStoreAssumption
  <2> QED
    BY <1>1, <2>1 DEF Candidate
<1>3. Filename \subseteq Name
  <2>1. <<>> \in Seq(Nat) /\ <<1>> \in Seq(Nat)
    OBVIOUS
  <2> QED
    BY <2>1 DEF Filename, Name
<1> QED
  BY <1>1, <1>2, <1>3

LEMMA RequestShapes ==
  ASSUME TypeOK, NEW r \in Req
  PROVE  /\ req[r] \in {Idle} \cup UploadReq \cup FileReq
         /\ req[r].pc \in {"save", "insert", "cleanup"} => req[r] \in UploadReq
         /\ req[r].pc \in {"lock", "record", "commit", "unlink", "open"} => req[r] \in FileReq
         /\ req[r].pc = "idle" => req[r] = Idle
  BY DEF TypeOK, Idle, UploadReq, FileReq

\* A request moves on by changing its pc, its attempt or its cancelled flag.
LEMMA UploadMoves ==
  ASSUME NEW q \in UploadReq
  PROVE  /\ \A pc \in {"save", "insert", "cleanup"} : [q EXCEPT !.pc = pc] \in UploadReq
         /\ [q EXCEPT !.cancelled = TRUE] \in UploadReq
         /\ \A b \in BOOLEAN : [q EXCEPT !.pc = "cleanup", !.cancelled = b] \in UploadReq
         /\ q.attempt <= MaxDedup => [q EXCEPT !.attempt = @ + 1] \in UploadReq
<1>1. \A pc \in {"save", "insert", "cleanup"} : [q EXCEPT !.pc = pc] \in UploadReq
  BY DEF UploadReq
<1>2. [q EXCEPT !.cancelled = TRUE] \in UploadReq
  BY DEF UploadReq
<1>3. \A b \in BOOLEAN : [q EXCEPT !.pc = "cleanup", !.cancelled = b] \in UploadReq
  BY DEF UploadReq
<1>4. ASSUME q.attempt <= MaxDedup PROVE [q EXCEPT !.attempt = @ + 1] \in UploadReq
  <2>1. q.attempt + 1 \in 1..(MaxDedup + 1)
    BY <1>4, FileStoreAssumption DEF UploadReq
  <2> QED
    BY <2>1 DEF UploadReq
<1> QED
  BY <1>1, <1>2, <1>3, <1>4

LEMMA FileMoves ==
  ASSUME NEW q \in FileReq
  PROVE  /\ \A pc \in {"lock", "record", "commit", "unlink", "open"} : [q EXCEPT !.pc = pc] \in FileReq
         /\ [q EXCEPT !.cancelled = TRUE] \in FileReq
         /\ \A v \in Nat : [q EXCEPT !.pc = "commit", !.drawn = v] \in FileReq
  BY DEF FileReq

LEMMA StepTyped ==
  ASSUME TypeOK, NEW r \in Req, NEW q \in {Idle} \cup UploadReq \cup FileReq, Step(r, q)
  PROVE  req' \in [Req -> {Idle} \cup UploadReq \cup FileReq]
  BY DEF TypeOK, Step

LEMMA ReturnTyped ==
  ASSUME TypeOK, NEW r \in Req, Return(r)
  PROVE  req' \in [Req -> {Idle} \cup UploadReq \cup FileReq]
  BY StepTyped DEF Return

LEMMA BlobOps ==
  ASSUME NEW k, NEW c
  PROVE  /\ DOMAIN Put(k, c) = DOMAIN blobs \cup {k}
         /\ Put(k, c)[k] = c
         /\ \A j \in DOMAIN blobs : j # k => Put(k, c)[j] = blobs[j]
         /\ DOMAIN Remove(k) = DOMAIN blobs \ {k}
         /\ \A j \in DOMAIN blobs \ {k} : Remove(k)[j] = blobs[j]
  BY DEF Put, Remove

LEMMA UnlinkTyped ==
  ASSUME TypeOK, NEW k, NEW x, Unlink(k, x)
  PROVE  DOMAIN blobs' \subseteq Key /\ \A j \in DOMAIN blobs' : blobs'[j] \in Content
<1>1. CASE blobs' = Remove(k)
  BY <1>1, BlobOps DEF TypeOK
<1>2. CASE UNCHANGED blobs
  BY <1>2 DEF TypeOK
<1> QED
  BY <1>1, <1>2 DEF Unlink

LEMMA RowTyped ==
  ASSUME TypeOK, NEW q \in UploadReq, Insert
  PROVE  /\ RowFor(q) \in File
         /\ idSeq' \in Nat /\ versionSeq' \in Nat /\ deletions' \subseteq Deletion
<1>1. Candidate(q.base, q.attempt) \in Name
  BY NameOps DEF UploadReq
<1> QED
  BY <1>1 DEF RowFor, File, UploadReq, TypeOK, Insert

LEMMA DeleteTyped ==
  ASSUME TypeOK, NEW q \in FileReq, SwapRow(q)
  PROVE  /\ files' \subseteq File /\ deletions' \subseteq Deletion
         /\ idSeq' \in Nat /\ versionSeq' \in Nat
<1>1. TombstoneFor(q) \in Deletion
  BY DEF TombstoneFor, Deletion, File, FileReq
<1> QED
  BY <1>1 DEF SwapRow, TypeOK

LEMMA TypeInit == Init => TypeOK
  BY DEF Init, TypeOK

LEMMA TypeNext == TypeOK /\ [Next]_vars => TypeOK'
<1> SUFFICES ASSUME TypeOK, [Next]_vars PROVE TypeOK'
  OBVIOUS
<1> USE DEF tables
<1>1. ASSUME NEW r \in Req, NEW u \in User, NEW b \in Filename, NEW c \in Content,
             StartUpload(r, u, b, c)
      PROVE  TypeOK'
  <2> DEFINE q == [pc |-> "save", user |-> u, base |-> b, content |-> c, attempt |-> 1,
                   key |-> KeyFor(u, b), cancelled |-> FALSE]
  <2>1. clock' \in Nat /\ b \in Name
    BY <1>1, NameOps DEF StartUpload, TypeOK
  <2>2. 1 \in 1..(MaxDedup + 1)
    BY FileStoreAssumption
  <2>3. q \in UploadReq
    BY <2>1, <2>2 DEF UploadReq, Key, KeyFor, TypeOK
  <2>4. Step(r, q)
    BY <1>1 DEF StartUpload
  <2> HIDE DEF q
  <2>5. req' \in [Req -> {Idle} \cup UploadReq \cup FileReq]
    BY <2>3, <2>4, StepTyped
  <2> QED
    BY <1>1, <2>1, <2>5 DEF StartUpload, TypeOK
<1>2. ASSUME NEW r \in Req, SaveBytes(r) PROVE TypeOK'
  <2>1. req[r] \in UploadReq
    BY <1>2, RequestShapes DEF SaveBytes
  <2>2. req' \in [Req -> {Idle} \cup UploadReq \cup FileReq]
    BY <1>2, <2>1, UploadMoves, StepTyped DEF SaveBytes
  <2>3. DOMAIN blobs' \subseteq Key /\ \A j \in DOMAIN blobs' : blobs'[j] \in Content
    <3> DEFINE k == req[r].key  c == req[r].content
    <3>1. k \in Key /\ c \in Content
      BY <2>1 DEF UploadReq
    <3>2. blobs' = Put(k, c)
      BY <1>2 DEF SaveBytes
    <3> HIDE DEF k, c
    <3>3. DOMAIN blobs' = DOMAIN blobs \cup {k} /\ blobs'[k] = c
      BY <3>2, BlobOps
    <3>4. \A j \in DOMAIN blobs : j # k => blobs'[j] = blobs[j]
      BY <3>2 DEF Put
    <3> QED
      BY <3>1, <3>3, <3>4 DEF TypeOK
  <2> QED
    BY <1>2, <2>2, <2>3 DEF SaveBytes, TypeOK
<1>3. ASSUME NEW r \in Req, SaveFails(r) PROVE TypeOK'
  BY <1>3, ReturnTyped DEF SaveFails, TypeOK
<1>4. ASSUME NEW r \in Req, InsertRow(r) PROVE TypeOK'
  <2>1. req[r] \in UploadReq
    BY <1>4, RequestShapes DEF InsertRow
  <2>2. req' \in [Req -> {Idle} \cup UploadReq \cup FileReq]
    BY <1>4, ReturnTyped DEF InsertRow
  <2> QED
    BY <1>4, <2>1, <2>2, RowTyped DEF InsertRow, TypeOK
<1>5. ASSUME NEW r \in Req, InsertUnacked(r) PROVE TypeOK'
  <2>1. req[r] \in UploadReq
    BY <1>5, RequestShapes DEF InsertUnacked
  <2>2. PICK b \in BOOLEAN : Step(r, [req[r] EXCEPT !.pc = "cleanup", !.cancelled = b])
    BY <1>5 DEF InsertUnacked
  <2>3. req' \in [Req -> {Idle} \cup UploadReq \cup FileReq]
    BY <2>1, <2>2, UploadMoves, StepTyped
  <2> QED
    BY <1>5, <2>1, <2>3, RowTyped DEF InsertUnacked, TypeOK
<1>6. ASSUME NEW r \in Req, InsertConflict(r) PROVE TypeOK'
  <2>1. req[r] \in UploadReq
    BY <1>6, RequestShapes DEF InsertConflict
  <2>2. req' \in [Req -> {Idle} \cup UploadReq \cup FileReq]
    BY <1>6, <2>1, UploadMoves, StepTyped DEF InsertConflict
  <2> QED
    BY <1>6, <2>1, <2>2, RowTyped DEF InsertConflict, TypeOK
<1>7. ASSUME NEW r \in Req, InsertFails(r) PROVE TypeOK'
  <2>1. req' \in [Req -> {Idle} \cup UploadReq \cup FileReq]
    BY <1>7, RequestShapes, UploadMoves, StepTyped DEF InsertFails
  <2> QED
    BY <1>7, <2>1 DEF InsertFails, TypeOK
<1>8. ASSUME NEW r \in Req, Cleanup(r) PROVE TypeOK'
  BY <1>8, ReturnTyped, UnlinkTyped DEF Cleanup, TypeOK
<1>9. ASSUME NEW r \in Req, NEW u \in User, NEW id, StartDelete(r, u, id) PROVE TypeOK'
  BY <1>9 DEF StartDelete, GetByID, TypeOK, Step, FileReq
<1>10. ASSUME NEW r \in Req, LockRow(r) PROVE TypeOK'
  <2>1. req' \in [Req -> {Idle} \cup UploadReq \cup FileReq]
    BY <1>10, RequestShapes, FileMoves, StepTyped DEF LockRow
  <2> QED
    BY <1>10, <2>1 DEF LockRow, TypeOK
<1>11. ASSUME NEW r \in Req, CommitDelete(r) PROVE TypeOK'
  <2>1. req[r] \in FileReq
    BY <1>11, RequestShapes DEF CommitDelete
  <2>2. req' \in [Req -> {Idle} \cup UploadReq \cup FileReq]
    BY <1>11, <2>1, FileMoves, StepTyped DEF CommitDelete
  <2> QED
    BY <1>11, <2>1, <2>2, DeleteTyped DEF CommitDelete, TypeOK
<1>12. ASSUME NEW r \in Req, CommitUnacked(r) PROVE TypeOK'
  <2>1. req[r] \in FileReq
    BY <1>12, RequestShapes DEF CommitUnacked
  <2>2. req' \in [Req -> {Idle} \cup UploadReq \cup FileReq]
    BY <1>12, ReturnTyped DEF CommitUnacked
  <2> QED
    BY <1>12, <2>1, <2>2, DeleteTyped DEF CommitUnacked, TypeOK
<1>13. ASSUME NEW r \in Req, DeleteFails(r) PROVE TypeOK'
  BY <1>13, ReturnTyped DEF DeleteFails, TypeOK
<1>14. ASSUME NEW r \in Req, RemoveBytes(r) PROVE TypeOK'
  BY <1>14, ReturnTyped, UnlinkTyped DEF RemoveBytes, TypeOK
<1>15. ASSUME NEW r \in Req, NEW u \in User, NEW id, StartDownload(r, u, id) PROVE TypeOK'
  BY <1>15 DEF StartDownload, GetByID, TypeOK, Step, FileReq
<1>16. ASSUME NEW r \in Req, OpenBytes(r) PROVE TypeOK'
  BY <1>16, ReturnTyped DEF OpenBytes, TypeOK
<1>17. ASSUME NEW r \in Req, Cancel(r) PROVE TypeOK'
  <2>1. req' \in [Req -> {Idle} \cup UploadReq \cup FileReq]
    BY <1>17, RequestShapes, UploadMoves, FileMoves, StepTyped DEF Cancel
  <2> QED
    BY <1>17, <2>1 DEF Cancel, TypeOK
<1>18. ASSUME Crash PROVE TypeOK'
  BY <1>18 DEF Crash, TypeOK
<1>19. ASSUME UNCHANGED vars PROVE TypeOK'
  BY <1>19 DEF vars, TypeOK
<1>20. ASSUME NEW r \in Req, InsertTombstone(r) PROVE TypeOK'
  <2>1. req[r] \in FileReq /\ versionSeq + 1 \in Nat
    BY <1>20, RequestShapes DEF InsertTombstone, TypeOK
  <2>2. Step(r, [req[r] EXCEPT !.pc = "commit", !.drawn = versionSeq + 1])
    BY <1>20 DEF InsertTombstone
  <2>3. req' \in [Req -> {Idle} \cup UploadReq \cup FileReq]
    BY <2>1, <2>2, FileMoves, StepTyped
  <2> QED
    BY <1>20, <2>1, <2>3 DEF InsertTombstone, TypeOK
<1> QED
  BY <1>1, <1>2, <1>3, <1>4, <1>5, <1>6, <1>7, <1>8, <1>9, <1>10, <1>11, <1>12,
     <1>13, <1>14, <1>15, <1>16, <1>17, <1>18, <1>19, <1>20
  DEF Next, Start, Serve, Proceed, Fail, StartContent

\* Type correctness of every reachable state, for any set of slots and faults.
THEOREM TypeCorrect == Spec => []TypeOK
  BY TypeInit, TypeNext, PTL DEF Spec

-----------------------------------------------------------------------------
(* Why the safety properties hold: the parts of the inductive invariants *)

Uploading(q) == q.pc \in {"save", "insert", "cleanup"}

Holding(q) == q.pc \in {"lock", "record", "commit", "unlink", "open"}

\* An upload whose key no row carries.  A cancelled cleanup may follow an
\* INSERT that did commit; it removes nothing.
Pending(q) == q.pc \in {"save", "insert"} \/ (q.pc = "cleanup" /\ ~q.cancelled)

\* Keys: every key in use was made from a clock value already spent, and one
\* key is one upload and at most one row.
KeysSpent ==
  /\ \A f \in files : f.key.time <= clock
  /\ \A r \in Req : Uploading(req[r]) => req[r].key.time <= clock
  /\ \A r \in Req : Holding(req[r]) => req[r].file.key.time <= clock

OneRowPerKey == \A f, g \in files : f.key = g.key => f = g

KeysOwned ==
  \A r, p \in Req :
    Uploading(req[r]) /\ Uploading(req[p]) /\ req[r].key = req[p].key => r = p

PendingUnlisted ==
  \A r \in Req : Pending(req[r]) => \A f \in files : f.key # req[r].key

PendingUnheld ==
  \A r, p \in Req :
    Pending(req[r]) /\ Holding(req[p]) => req[p].file.key # req[r].key

HeldByKey ==
  \A r \in Req : Holding(req[r]) =>
    \A f \in files : f.key = req[r].file.key => f = req[r].file

DeletedUnlisted ==
  \A r \in Req : req[r].pc = "unlink" => \A f \in files : f.key # req[r].file.key

\* Bytes: saved for the insert that follows, and never rewritten.
SavedBytes ==
  \A r \in Req : req[r].pc = "insert" =>
    req[r].key \in DOMAIN blobs /\ blobs[req[r].key] = req[r].content

HeldBytes ==
  \A r \in Req : Holding(req[r]) /\ req[r].file.key \in DOMAIN blobs =>
    blobs[req[r].file.key] = req[r].file.sha

KeyInv ==
  /\ KeysSpent /\ OneRowPerKey /\ KeysOwned
  /\ PendingUnlisted /\ PendingUnheld /\ HeldByKey /\ DeletedUnlisted

BytesInv == BytesBehindRows /\ SavedBytes /\ HeldBytes

\* Rows: ids are never reused, and a delete that has its row holds its lock.
IdsSpent ==
  /\ \A f \in files \cup deletions : f.id <= idSeq /\ f.version <= versionSeq
  /\ \A r \in Req : Holding(req[r]) => req[r].file.id <= idSeq
  /\ \A r \in Req : req[r].pc = "commit" => req[r].drawn <= versionSeq

HoldsLock(q) == q.pc \in {"record", "commit"}

OneRowPerId == \A f, g \in files : f.id = g.id => f = g

HeldById ==
  \A r \in Req : Holding(req[r]) =>
    \A f \in files : f.id = req[r].file.id => f = req[r].file

CommitHolds == \A r \in Req : HoldsLock(req[r]) => req[r].file \in files

LocksExclusive ==
  \A r, p \in Req :
    HoldsLock(req[r]) /\ HoldsLock(req[p])
      /\ req[r].file.id = req[p].file.id => r = p

RowInv ==
  /\ IdsSpent /\ OneRowPerId /\ HeldById /\ CommitHolds /\ LocksExclusive
  /\ OneFatePerFile

-----------------------------------------------------------------------------
\* What one step of one slot does to the slots.
LEMMA Frame ==
  ASSUME TypeOK, NEW r \in Req, NEW q, Step(r, q)
  PROVE  /\ req'[r] = q
         /\ \A p \in Req : p # r => req'[p] = req[p]
  BY DEF TypeOK, Step

LEMMA FrameTombstone ==
  ASSUME TypeOK, NEW r \in Req, InsertTombstone(r)
  PROVE  /\ req[r].pc = "record" /\ req'[r].pc = "commit"
         /\ req'[r].file = req[r].file /\ req'[r].drawn = versionSeq + 1
         /\ req'[r].cancelled = req[r].cancelled
         /\ \A p \in Req : p # r => req'[p] = req[p]
<1> DEFINE q == [req[r] EXCEPT !.pc = "commit", !.drawn = versionSeq + 1]
<1>1. req[r] \in FileReq /\ req[r].pc = "record"
  BY RequestShapes DEF InsertTombstone
<1>2. /\ q.pc = "commit" /\ q.file = req[r].file /\ q.drawn = versionSeq + 1
      /\ q.cancelled = req[r].cancelled
  BY <1>1 DEF FileReq
<1>3. Step(r, q)
  BY DEF InsertTombstone
<1> HIDE DEF q
<1>4. req'[r] = q /\ \A p \in Req : p # r => req'[p] = req[p]
  BY <1>3, Frame
<1> QED
  BY <1>1, <1>2, <1>4

LEMMA FrameReturn ==
  ASSUME TypeOK, NEW r \in Req, Return(r)
  PROVE  \A p \in Req : req'[p] = req[p] \/ req'[p] = Idle
  BY DEF TypeOK, Step, Return

LEMMA RowInit == Init => RowInv
  BY DEF Init, Idle, RowInv, IdsSpent, OneRowPerId, HeldById, CommitHolds,
     LocksExclusive, OneFatePerFile, Holding, HoldsLock

\* What a step that reads or changes no row may do to the requests.
Quiet(p) ==
  \/ /\ req'[p].pc = req[p].pc
     /\ Holding(req[p]) => req'[p].file = req[p].file /\ req'[p].drawn = req[p].drawn
  \/ req'[p].pc \in {"idle", "save", "insert", "cleanup"}

LEMMA RowQuiet ==
  ASSUME TypeOK, RowInv, UNCHANGED <<files, deletions>>,
         idSeq' \in Nat, versionSeq' \in Nat, idSeq <= idSeq', versionSeq <= versionSeq',
         \A p \in Req : Quiet(p)
  PROVE  RowInv'
<1>1. IdsSpent'
  <2>1. \A f \in files \cup deletions : f.id \in Nat /\ f.version \in Nat
    BY DEF TypeOK, File, Deletion
  <2>2. \A p \in Req : Holding(req[p]) => req[p].file.id \in Nat /\ req[p].drawn \in Nat
    BY RequestShapes DEF Holding, FileReq, File
  <2> QED
    BY <2>1, <2>2 DEF TypeOK, RowInv, IdsSpent, Holding, Quiet
<1>2. OneRowPerId' /\ HeldById' /\ CommitHolds' /\ LocksExclusive' /\ OneFatePerFile'
  BY DEF RowInv, OneRowPerId, HeldById, CommitHolds, LocksExclusive,
     OneFatePerFile, Holding, HoldsLock, Quiet
<1> QED
  BY <1>1, <1>2 DEF RowInv

LEMMA RowInserted ==
  ASSUME TypeOK, RowInv, NEW q \in UploadReq, Insert, files' = files \cup {RowFor(q)},
         \A p \in Req : Quiet(p)
  PROVE  RowInv'
<1>1. /\ RowFor(q).id = idSeq + 1 /\ RowFor(q).version = versionSeq + 1
      /\ idSeq' = idSeq + 1 /\ versionSeq' = versionSeq + 1 /\ deletions' = deletions
      /\ idSeq \in Nat /\ versionSeq \in Nat
  BY DEF RowFor, Insert, TypeOK
<1>2. \A f \in files \cup deletions :
         /\ f.id \in Nat /\ f.version \in Nat
         /\ f.id <= idSeq /\ f.version <= versionSeq
  BY DEF TypeOK, File, Deletion, RowInv, IdsSpent
<1>3. /\ \A p \in Req : Holding(req[p]) => req[p].file.id \in Nat /\ req[p].file.id <= idSeq
      /\ \A p \in Req : req[p].pc = "commit" => req[p].drawn \in Nat /\ req[p].drawn <= versionSeq
  BY RequestShapes DEF Holding, FileReq, File, RowInv, IdsSpent
<1>4. IdsSpent'
  BY <1>1, <1>2, <1>3 DEF IdsSpent, Holding, Quiet
<1>5. OneRowPerId' /\ OneFatePerFile'
  BY <1>1, <1>2 DEF RowInv, OneRowPerId, OneFatePerFile
<1>6. HeldById'
  BY <1>1, <1>3 DEF RowInv, HeldById, Holding, Quiet
<1>7. CommitHolds' /\ LocksExclusive'
  BY DEF RowInv, CommitHolds, LocksExclusive, Holding, HoldsLock, Quiet
<1> QED
  BY <1>4, <1>5, <1>6, <1>7 DEF RowInv

\* The lock makes the committing request the only one whose row goes away.
LEMMA RowDeleted ==
  ASSUME TypeOK, RowInv, NEW r \in Req, req[r].pc = "commit", SwapRow(req[r]),
         \A p \in Req : p # r => req'[p] = req[p],
         \/ req'[r].pc = "unlink" /\ req'[r].file = req[r].file
         \/ req'[r].pc = "idle"
  PROVE  RowInv'
<1> DEFINE f == req[r].file
<1> DEFINE d == TombstoneFor(req[r])
<1>1. f \in files /\ f \in File /\ f.id \in Nat /\ f.id <= idSeq
  BY RequestShapes DEF RowInv, CommitHolds, HoldsLock, IdsSpent, FileReq, File, TypeOK
<1>2. /\ d.id = f.id /\ d.version = req[r].drawn
      /\ d.version \in Nat /\ d.version <= versionSeq
      /\ idSeq' = idSeq /\ versionSeq' = versionSeq
      /\ files' = {g \in files : g.id # f.id}
      /\ deletions' = deletions \cup {d}
      /\ idSeq \in Nat /\ versionSeq \in Nat
  BY RequestShapes DEF SwapRow, TombstoneFor, TypeOK, FileReq, RowInv, IdsSpent
<1> HIDE DEF d
<1> HIDE DEF f
<1>3. \A g \in files \cup deletions :
         /\ g.id \in Nat /\ g.version \in Nat
         /\ g.id <= idSeq /\ g.version <= versionSeq
  BY DEF TypeOK, File, Deletion, RowInv, IdsSpent
<1>4. IdsSpent'
  BY <1>1, <1>2, <1>3 DEF RowInv, IdsSpent, Holding, f
<1>5. OneRowPerId' /\ OneFatePerFile'
  BY <1>1, <1>2 DEF RowInv, OneRowPerId, OneFatePerFile
<1>6. HeldById'
  BY <1>1, <1>2 DEF RowInv, HeldById, Holding, f
<1>7. CommitHolds' /\ LocksExclusive'
  BY <1>1, <1>2 DEF RowInv, CommitHolds, LocksExclusive, HoldsLock, f
<1> QED
  BY <1>4, <1>5, <1>6, <1>7 DEF RowInv

LEMMA RowNext == TypeOK /\ RowInv /\ [Next]_vars => RowInv'
<1> SUFFICES ASSUME TypeOK, RowInv, [Next]_vars PROVE RowInv'
  OBVIOUS
<1>1. ASSUME NEW r \in Req, NEW u \in User, NEW b \in Filename, NEW c \in Content,
             StartUpload(r, u, b, c)
      PROVE  RowInv'
  BY <1>1, Frame, RowQuiet DEF Quiet, TypeOK, tables, StartUpload
<1>2. ASSUME NEW r \in Req, SaveBytes(r) PROVE RowInv'
  <2>1. req[r] \in UploadReq
    BY <1>2, RequestShapes DEF SaveBytes
  <2>2. req'[r].pc = "insert" /\ \A p \in Req : p # r => req'[p] = req[p]
    BY <1>2, <2>1, Frame DEF SaveBytes, UploadReq
  <2> QED
    BY <1>2, <2>2, RowQuiet DEF SaveBytes, Quiet, tables, TypeOK
<1>3. ASSUME NEW r \in Req, SaveFails(r) PROVE RowInv'
  BY <1>3, FrameReturn, RowQuiet DEF Quiet, TypeOK, tables, SaveFails, Idle
<1>4. ASSUME NEW r \in Req, InsertRow(r) PROVE RowInv'
  <2>1. req[r] \in UploadReq
    BY <1>4, RequestShapes DEF InsertRow
  <2> QED
    BY <1>4, <2>1, FrameReturn, RowInserted DEF InsertRow, Idle, Quiet
<1>5. ASSUME NEW r \in Req, InsertUnacked(r) PROVE RowInv'
  <2>1. req[r] \in UploadReq
    BY <1>5, RequestShapes DEF InsertUnacked
  <2>2. /\ \A p \in Req : p # r => req'[p] = req[p]
        /\ \E b \in BOOLEAN :
             req'[r] = [req[r] EXCEPT !.pc = "cleanup", !.cancelled = b]
    BY <1>5, Frame DEF InsertUnacked
  <2>3. req'[r].pc = "cleanup"
    BY <2>1, <2>2 DEF UploadReq
  <2> QED
    BY <1>5, <2>1, <2>2, <2>3, RowInserted DEF InsertUnacked, Quiet
<1>6. ASSUME NEW r \in Req, InsertConflict(r) PROVE RowInv'
  <2>1. req[r] \in UploadReq
    BY <1>6, RequestShapes DEF InsertConflict
  <2>2. \A p \in Req : p # r => req'[p] = req[p]
    BY <1>6, Frame DEF InsertConflict
  <2>3. req'[r].pc \in {"insert", "cleanup"}
    BY <1>6, <2>1, Frame DEF InsertConflict, UploadReq
  <2> QED
    BY <1>6, <2>2, <2>3, RowQuiet DEF InsertConflict, Quiet, Insert, TypeOK
<1>7. ASSUME NEW r \in Req, InsertFails(r) PROVE RowInv'
  BY <1>7, Frame, RowQuiet, RequestShapes DEF Quiet, TypeOK, tables, InsertFails, UploadReq
<1>8. ASSUME NEW r \in Req, Cleanup(r) PROVE RowInv'
  BY <1>8, FrameReturn, RowQuiet DEF Quiet, TypeOK, tables, Cleanup, Idle
<1>9. ASSUME NEW r \in Req, NEW u \in User, NEW id, StartDelete(r, u, id) PROVE RowInv'
  BY <1>9 DEF StartDelete, GetByID, Step, tables, TypeOK, RowInv, IdsSpent, OneRowPerId, HeldById, CommitHolds,
     LocksExclusive, OneFatePerFile, Holding, HoldsLock
<1>10. ASSUME NEW r \in Req, LockRow(r) PROVE RowInv'
  <2>1. req[r] \in FileReq /\ req[r].pc = "lock"
    BY <1>10, RequestShapes DEF LockRow
  <2>2. \A p \in Req : p # r => req'[p] = req[p]
    BY <1>10, Frame DEF LockRow
  <2>3. UNCHANGED tables
    BY <1>10 DEF LockRow
  <2>4. CASE GetByID(req[r].user, req[r].file.id) = {}
    <3>1. req'[r] = Idle
      BY <1>10, <2>4, Frame DEF LockRow
    <3> QED
      BY <2>2, <2>3, <3>1, RowQuiet DEF Quiet, Idle, TypeOK, tables
  <2>5. CASE GetByID(req[r].user, req[r].file.id) # {}
    <3>1. req[r].file \in files
      BY <2>1, <2>5 DEF GetByID, RowInv, HeldById, Holding
    <3>2. req'[r].pc = "record" /\ req'[r].file = req[r].file
      BY <1>10, <2>1, <2>5, Frame DEF LockRow, FileReq
    <3>3. \A p \in Req : HoldsLock(req[p]) => req[p].file.id # req[r].file.id
      BY <1>10 DEF LockRow, Locked, HoldsLock
    <3> QED
      BY <2>1, <2>2, <2>3, <3>1, <3>2, <3>3 DEF tables, RowInv, IdsSpent, OneRowPerId,
         HeldById, CommitHolds, LocksExclusive, OneFatePerFile, Holding, HoldsLock
  <2> QED
    BY <2>4, <2>5
<1>11. ASSUME NEW r \in Req, CommitDelete(r) PROVE RowInv'
  <2>1. req[r] \in FileReq
    BY <1>11, RequestShapes DEF CommitDelete
  <2>2. req'[r].pc = "unlink" /\ req'[r].file = req[r].file
    BY <1>11, <2>1, Frame DEF CommitDelete, FileReq
  <2> QED
    BY <1>11, <2>2, Frame, RowDeleted DEF CommitDelete
<1>12. ASSUME NEW r \in Req, CommitUnacked(r) PROVE RowInv'
  BY <1>12, Frame, RowDeleted DEF CommitUnacked, Return, Idle
<1>13. ASSUME NEW r \in Req, DeleteFails(r) PROVE RowInv'
  BY <1>13, FrameReturn, RowQuiet DEF Quiet, TypeOK, tables, DeleteFails, Idle
<1>14. ASSUME NEW r \in Req, RemoveBytes(r) PROVE RowInv'
  BY <1>14, FrameReturn, RowQuiet DEF Quiet, TypeOK, tables, RemoveBytes, Idle
<1>15. ASSUME NEW r \in Req, NEW u \in User, NEW id, StartDownload(r, u, id) PROVE RowInv'
  BY <1>15 DEF StartDownload, GetByID, Step, tables, TypeOK, RowInv, IdsSpent, OneRowPerId, HeldById, CommitHolds,
     LocksExclusive, OneFatePerFile, Holding, HoldsLock
<1>16. ASSUME NEW r \in Req, OpenBytes(r) PROVE RowInv'
  BY <1>16, FrameReturn, RowQuiet DEF Quiet, TypeOK, tables, OpenBytes, Idle
<1>17. ASSUME NEW r \in Req, Cancel(r) PROVE RowInv'
  <2>1. req[r] \in UploadReq \cup FileReq
    BY <1>17, RequestShapes DEF Cancel
  <2>2. /\ req'[r].pc = req[r].pc
        /\ Holding(req[r]) => req'[r].file = req[r].file /\ req'[r].drawn = req[r].drawn
    BY <1>17, <2>1, Frame DEF Cancel, UploadReq, FileReq, Holding
  <2>3. \A p \in Req : p # r => req'[p] = req[p]
    BY <1>17, Frame DEF Cancel
  <2> QED
    BY <1>17, <2>2, <2>3, RowQuiet DEF Cancel, Quiet, tables, TypeOK
<1>18. ASSUME Crash PROVE RowInv'
  BY <1>18, RowQuiet DEF Quiet, TypeOK, tables, Crash, Idle
<1>19. ASSUME UNCHANGED vars PROVE RowInv'
  BY <1>19 DEF vars, tables, RowInv, IdsSpent, OneRowPerId, HeldById, CommitHolds,
     LocksExclusive, OneFatePerFile, Holding, HoldsLock
<1>20. ASSUME NEW r \in Req, InsertTombstone(r) PROVE RowInv'
  <2>1. /\ req[r] \in FileReq /\ req[r].pc = "record" /\ versionSeq \in Nat
        /\ versionSeq' = versionSeq + 1 /\ UNCHANGED <<files, deletions, idSeq>>
    BY <1>20, RequestShapes DEF InsertTombstone, TypeOK
  <2>2. \A p \in Req : p # r => req'[p] = req[p]
    BY <1>20, FrameTombstone
  <2>3. /\ req'[r].pc = "commit" /\ req'[r].file = req[r].file
        /\ req'[r].drawn = versionSeq + 1
    BY <1>20, FrameTombstone
  <2>4. /\ \A f \in files \cup deletions : f.version \in Nat /\ f.version <= versionSeq
        /\ \A p \in Req : req[p].pc = "commit" => req[p].drawn \in Nat /\ req[p].drawn <= versionSeq
    BY RequestShapes DEF TypeOK, File, Deletion, FileReq, RowInv, IdsSpent
  <2>5. IdsSpent'
    BY <2>1, <2>2, <2>3, <2>4 DEF RowInv, IdsSpent, Holding
  <2>6. OneRowPerId' /\ HeldById' /\ CommitHolds' /\ LocksExclusive' /\ OneFatePerFile'
    BY <2>1, <2>2, <2>3 DEF RowInv, OneRowPerId, HeldById, CommitHolds, LocksExclusive,
       OneFatePerFile, Holding, HoldsLock
  <2> QED
    BY <2>5, <2>6 DEF RowInv
<1> QED
  BY <1>1, <1>2, <1>3, <1>4, <1>5, <1>6, <1>7, <1>8, <1>9, <1>10, <1>11, <1>12,
     <1>13, <1>14, <1>15, <1>16, <1>17, <1>18, <1>19, <1>20
  DEF Next, Start, Serve, Proceed, Fail, StartContent

LEMMA RowCorrect == Spec => [](TypeOK /\ RowInv)
<1>1. Init => TypeOK /\ RowInv
  BY TypeInit, RowInit
<1>2. TypeOK /\ RowInv /\ [Next]_vars => (TypeOK /\ RowInv)'
  BY TypeNext, RowNext
<1> QED
  BY <1>1, <1>2, PTL DEF Spec

\* Two concurrent deletes of one file leave one tombstone, whatever fails: the
\* row lock admits one committing request per row, and ids are never reused.
THEOREM OneFate == Spec => []OneFatePerFile
<1>1. RowInv => OneFatePerFile
  BY DEF RowInv
<1> QED
  BY <1>1, RowCorrect, PTL

\* Versions, table by table, across the two, and those drawn for tombstones
\* that are not committed yet.
VersionsApart ==
  /\ \A f, g \in files : f.version = g.version => f.id = g.id
  /\ \A d, e \in deletions : d.version = e.version => d.id = e.id
  /\ \A f \in files, d \in deletions : f.version # d.version
  /\ \A r \in Req : req[r].pc = "commit" =>
       /\ req[r].file.version < req[r].drawn
       /\ \A f \in files \cup deletions : f.version # req[r].drawn
       /\ \A p \in Req : req[p].pc = "commit" /\ req[p].drawn = req[r].drawn => p = r

\* A step that draws no version for a tombstone and commits none.
LEMMA VersionsQuiet ==
  ASSUME TypeOK, VersionsApart, UNCHANGED <<files, deletions>>,
         \A p \in Req : req'[p].pc = "commit" =>
           /\ req[p].pc = "commit"
           /\ req'[p].file = req[p].file /\ req'[p].drawn = req[p].drawn
  PROVE  VersionsApart'
  BY DEF VersionsApart

LEMMA VersionNext == TypeOK /\ RowInv /\ VersionsApart /\ [Next]_vars => VersionsApart'
<1> SUFFICES ASSUME TypeOK, RowInv, VersionsApart, [Next]_vars PROVE VersionsApart'
  OBVIOUS
<1>1. /\ \A f \in files \cup deletions : f.version \in Nat /\ f.version <= versionSeq
      /\ \A r \in Req : req[r].pc = "commit" => req[r].drawn \in Nat /\ req[r].drawn <= versionSeq
      /\ versionSeq \in Nat
  BY RequestShapes DEF TypeOK, File, Deletion, FileReq, RowInv, IdsSpent
<1>2. ASSUME NEW r \in Req, NEW q \in UploadReq, Insert, files' = files \cup {RowFor(q)},
             \A p \in Req : p # r => req'[p] = req[p], req'[r].pc # "commit"
      PROVE  VersionsApart'
  <2>1. RowFor(q).version = versionSeq + 1
    BY DEF RowFor
  <2> QED
    BY <1>1, <1>2, <2>1 DEF Insert, VersionsApart
<1>3. ASSUME NEW r \in Req, req[r].pc = "commit", SwapRow(req[r]),
             \A p \in Req : p # r => req'[p] = req[p], req'[r].pc # "commit"
      PROVE  VersionsApart'
  <2>1. TombstoneFor(req[r]).version = req[r].drawn
    BY DEF TombstoneFor
  <2> QED
    BY <1>1, <1>3, <2>1 DEF SwapRow, VersionsApart
<1>4. ASSUME NEW r \in Req, InsertTombstone(r) PROVE VersionsApart'
  <2>1. /\ req[r] \in FileReq /\ req[r].file \in files
        /\ UNCHANGED <<files, deletions>>
    BY <1>4, RequestShapes DEF InsertTombstone, RowInv, CommitHolds, HoldsLock
  <2>2. \A p \in Req : p # r => req'[p] = req[p]
    BY <1>4, FrameTombstone
  <2>3. req'[r].file = req[r].file /\ req'[r].drawn = versionSeq + 1
    BY <1>4, FrameTombstone
  <2> QED
    BY <1>1, <2>1, <2>2, <2>3 DEF VersionsApart
<1>5. ASSUME NEW r \in Req, InsertRow(r) \/ InsertUnacked(r) PROVE VersionsApart'
  <2>1. req[r] \in UploadReq
    BY <1>5, RequestShapes DEF InsertRow, InsertUnacked
  <2>2. /\ \A p \in Req : p # r => req'[p] = req[p]
        /\ req'[r] = Idle \/ \E b \in BOOLEAN :
             req'[r] = [req[r] EXCEPT !.pc = "cleanup", !.cancelled = b]
    BY <1>5, Frame DEF InsertRow, InsertUnacked, Return
  <2>3. req'[r].pc # "commit"
    <3>1. CASE req'[r] = Idle
      BY <3>1 DEF Idle
    <3>2. ASSUME NEW b \in BOOLEAN, req'[r] = [req[r] EXCEPT !.pc = "cleanup", !.cancelled = b]
          PROVE  req'[r].pc = "cleanup"
      BY <2>1, <3>2 DEF UploadReq
    <3> QED
      BY <2>2, <3>1, <3>2
  <2> QED
    BY <1>2, <1>5, <2>1, <2>2, <2>3 DEF InsertRow, InsertUnacked
<1>6. ASSUME NEW r \in Req, CommitDelete(r) \/ CommitUnacked(r) PROVE VersionsApart'
  <2>1. req[r] \in FileReq
    BY <1>6, RequestShapes DEF CommitDelete, CommitUnacked
  <2>2. /\ \A p \in Req : p # r => req'[p] = req[p]
        /\ req'[r] = Idle \/ req'[r] = [req[r] EXCEPT !.pc = "unlink"]
    BY <1>6, Frame DEF CommitDelete, CommitUnacked, Return
  <2>3. req'[r].pc # "commit"
    BY <2>1, <2>2 DEF FileReq, Idle
  <2> QED
    BY <1>3, <1>6, <2>2, <2>3 DEF CommitDelete, CommitUnacked
<1>7. ASSUME NEW r \in Req, Start(r) PROVE VersionsApart'
  <2>1. PICK q : Step(r, q) /\ q.pc \in {"save", "lock", "open"} /\ UNCHANGED <<files, deletions>>
    BY <1>7 DEF Start, StartUpload, StartDelete, StartDownload, StartContent, tables
  <2> QED
    BY <2>1, Frame, VersionsQuiet
<1>8. ASSUME NEW r \in Req,
             \/ SaveFails(r) \/ Cleanup(r) \/ DeleteFails(r) \/ RemoveBytes(r) \/ OpenBytes(r)
      PROVE  VersionsApart'
  <2>1. Return(r) /\ UNCHANGED <<files, deletions>>
    BY <1>8 DEF SaveFails, Cleanup, DeleteFails, RemoveBytes, OpenBytes, tables
  <2> QED
    BY <2>1, FrameReturn, VersionsQuiet DEF Idle
<1>9. ASSUME NEW r \in Req, SaveBytes(r) \/ InsertConflict(r) \/ InsertFails(r)
      PROVE  VersionsApart'
  <2>1. req[r] \in UploadReq
    BY <1>9, RequestShapes DEF SaveBytes, InsertConflict, InsertFails
  <2>2. /\ \A p \in Req : p # r => req'[p] = req[p]
        /\ \/ \E pc \in {"insert", "cleanup"} : req'[r] = [req[r] EXCEPT !.pc = pc]
           \/ req'[r] = [req[r] EXCEPT !.attempt = @ + 1]
        /\ UNCHANGED <<files, deletions>>
    BY <1>9, Frame DEF SaveBytes, InsertConflict, InsertFails, Insert, tables
  <2>3. req'[r].pc # "commit"
    BY <2>1, <2>2 DEF UploadReq
  <2> QED
    BY <2>2, <2>3, VersionsQuiet
<1>10. ASSUME NEW r \in Req, LockRow(r) PROVE VersionsApart'
  <2>1. req[r] \in FileReq
    BY <1>10, RequestShapes DEF LockRow
  <2>2. /\ \A p \in Req : p # r => req'[p] = req[p]
        /\ req'[r] = Idle \/ req'[r] = [req[r] EXCEPT !.pc = "record"]
        /\ UNCHANGED <<files, deletions>>
    BY <1>10, Frame DEF LockRow, tables
  <2>3. req'[r].pc # "commit"
    BY <2>1, <2>2 DEF FileReq, Idle
  <2> QED
    BY <2>2, <2>3, VersionsQuiet
<1>11. ASSUME NEW r \in Req, Cancel(r) PROVE VersionsApart'
  <2>1. req[r] \in UploadReq \cup FileReq
    BY <1>11, RequestShapes DEF Cancel
  <2>2. /\ \A p \in Req : p # r => req'[p] = req[p]
        /\ req'[r] = [req[r] EXCEPT !.cancelled = TRUE]
        /\ UNCHANGED <<files, deletions>>
    BY <1>11, Frame DEF Cancel, tables
  <2>3. req'[r].pc = "commit" =>
          /\ req[r].pc = "commit"
          /\ req'[r].file = req[r].file /\ req'[r].drawn = req[r].drawn
    BY <2>1, <2>2 DEF UploadReq, FileReq
  <2> QED
    BY <2>2, <2>3, VersionsQuiet
<1>12. ASSUME Crash PROVE VersionsApart'
  BY <1>12, VersionsQuiet DEF Crash, Idle, tables
<1>13. ASSUME UNCHANGED vars PROVE VersionsApart'
  BY <1>13, VersionsQuiet DEF vars
<1> QED
  BY <1>4, <1>5, <1>6, <1>7, <1>8, <1>9, <1>10, <1>11, <1>12, <1>13
  DEF Next, Serve, Proceed, Fail

LEMMA VersionCorrect == Spec => [](TypeOK /\ RowInv /\ VersionsApart)
<1>1. Init => VersionsApart
  BY DEF Init, VersionsApart, Idle
<1>2. TypeOK /\ RowInv /\ VersionsApart /\ [Next]_vars => VersionsApart'
  BY VersionNext
<1> QED
  BY <1>1, <1>2, RowCorrect, PTL DEF Spec

\* No two files, live or deleted, ever carry one version, however inserts and
\* deletes interleave or fail: both tables draw on one sequence.
THEOREM OneVersionEach == Spec => []VersionsDistinct
<1>1. VersionsApart => VersionsDistinct
  BY DEF VersionsApart, VersionsDistinct
<1> QED
  BY <1>1, VersionCorrect, PTL

\* A row leaves the table only for a tombstone with its identity and a version
\* above its own, drawn while the row was locked; no row is changed in place.
THEOREM Recorded == Spec => DeletionRecorded
<1> DEFINE Kept ==
      /\ \A f \in files \ files' : \E d \in deletions' \ deletions :
           /\ d.id = f.id /\ d.owner = f.owner /\ d.name = f.name /\ d.key = f.key
           /\ f.version < d.version
      /\ deletions \subseteq deletions'
      /\ \A g \in files' \ files, f \in files : g.id # f.id
<1>1. TypeOK /\ RowInv /\ VersionsApart /\ [Next]_vars => [Kept]_vars
  <2> SUFFICES ASSUME TypeOK, RowInv, VersionsApart, [Next]_vars PROVE [Kept]_vars
    OBVIOUS
  <2>1. CASE UNCHANGED <<files, deletions>>
    BY <2>1
  <2>2. ASSUME NEW q \in UploadReq, Insert, files' = files \cup {RowFor(q)} PROVE Kept
    <3>1. RowFor(q).id = idSeq + 1 /\ \A f \in files : f.id \in Nat /\ f.id <= idSeq
      BY DEF RowFor, TypeOK, File, RowInv, IdsSpent
    <3> QED
      BY <2>2, <3>1 DEF Insert, TypeOK
  <2>3. ASSUME NEW r \in Req, req[r].pc = "commit", SwapRow(req[r]) PROVE Kept
    <3> DEFINE f == req[r].file  d == TombstoneFor(req[r])
    <3>1. f \in files /\ f.version < req[r].drawn
      BY <2>3 DEF RowInv, CommitHolds, HoldsLock, VersionsApart
    <3>2. files \ files' = {f}
      BY <2>3, <3>1 DEF SwapRow, RowInv, OneRowPerId
    <3>3. /\ d.id = f.id /\ d.owner = f.owner /\ d.name = f.name /\ d.key = f.key
          /\ d.version = req[r].drawn
      BY DEF TombstoneFor
    <3>4. d \in deletions' \ deletions
      BY <2>3, <3>1, <3>3 DEF SwapRow, RowInv, OneFatePerFile
    <3>5. files' \subseteq files /\ deletions \subseteq deletions'
      BY <2>3 DEF SwapRow
    <3> QED
      BY <3>1, <3>2, <3>3, <3>4, <3>5
  <2>4. ASSUME NEW r \in Req, Serve(r) PROVE [Kept]_vars
    <3>1. CASE InsertRow(r) \/ InsertUnacked(r)
      BY <3>1, <2>2, RequestShapes DEF InsertRow, InsertUnacked
    <3>2. CASE CommitDelete(r) \/ CommitUnacked(r)
      BY <3>2, <2>3 DEF CommitDelete, CommitUnacked
    <3> QED
      BY <2>1, <2>4, <3>1, <3>2 DEF Serve, Proceed, Fail, tables, SaveBytes, SaveFails, InsertConflict,
         InsertFails, Insert, Cleanup, LockRow, InsertTombstone, DeleteFails, RemoveBytes, OpenBytes
  <2>5. ASSUME NEW r \in Req, Start(r) PROVE [Kept]_vars
    BY <2>1, <2>5 DEF Start, tables, StartUpload, StartDelete, StartDownload, StartContent
  <2> QED
    BY <2>1, <2>4, <2>5 DEF Next, Cancel, Crash, vars, tables
<1>2. Spec => [][Kept]_vars
  BY <1>1, VersionCorrect, PTL DEF Spec
<1> QED
  BY <1>2 DEF DeletionRecorded

-----------------------------------------------------------------------------
(* Bytes *)

LEMMA KeyInit == Init => KeyInv /\ BytesInv
  BY DEF Init, Idle, KeyInv, KeysSpent, OneRowPerKey, KeysOwned, PendingUnlisted,
     PendingUnheld, HeldByKey, DeletedUnlisted, BytesInv, BytesBehindRows, SavedBytes,
     HeldBytes, Uploading, Holding, Pending

\* A request that ends, or keeps its key or file and comes no nearer to an
\* insert or an unlink.
Tame(p) ==
  \/ req'[p].pc = "idle"
  \/ /\ Uploading(req[p]) /\ Uploading(req'[p])
     /\ req'[p].key = req[p].key /\ req'[p].content = req[p].content
     /\ Pending(req'[p]) => Pending(req[p])
     /\ req'[p].pc = "insert" => req[p].pc = "insert"
  \/ /\ Holding(req[p]) /\ Holding(req'[p]) /\ req'[p].file = req[p].file
     /\ req'[p].pc = "unlink" => req[p].pc = "unlink"

LEMMA TameKeys ==
  ASSUME KeyInv, UNCHANGED <<files, clock>>, \A p \in Req : Tame(p)
  PROVE  KeyInv'
<1>1. KeysSpent' /\ OneRowPerKey'
  BY DEF KeyInv, KeysSpent, OneRowPerKey, Tame, Uploading, Holding
<1>2. KeysOwned'
  BY DEF KeyInv, KeysOwned, Tame, Uploading, Holding
<1>3. PendingUnlisted' /\ PendingUnheld'
  BY DEF KeyInv, PendingUnlisted, PendingUnheld, Tame, Pending, Uploading, Holding
<1>4. HeldByKey' /\ DeletedUnlisted'
  BY DEF KeyInv, HeldByKey, DeletedUnlisted, Tame, Uploading, Holding
<1> QED
  BY <1>1, <1>2, <1>3, <1>4 DEF KeyInv

LEMMA TameBytes ==
  ASSUME BytesInv, UNCHANGED <<files, blobs>>, \A p \in Req : Tame(p)
  PROVE  BytesInv'
  BY DEF BytesInv, BytesBehindRows, SavedBytes, HeldBytes, Tame, Uploading, Holding

LEMMA StartUploadKeys ==
  ASSUME TypeOK, KeyInv, BytesInv, NEW r \in Req, NEW u \in User, NEW b, NEW c,
         StartUpload(r, u, b, c)
  PROVE  KeyInv' /\ BytesInv'
<1> DEFINE k == req'[r].key
<1>1. /\ req'[r].pc = "save" /\ k.time = clock + 1 /\ clock' = clock + 1
      /\ \A p \in Req : p # r => req'[p] = req[p]
      /\ UNCHANGED <<files, blobs>>
  BY Frame DEF StartUpload, KeyFor, tables
<1>2. /\ \A f \in files : f.key.time \in Nat
      /\ \A p \in Req : Uploading(req[p]) => req[p].key.time \in Nat
      /\ \A p \in Req : Holding(req[p]) => req[p].file.key.time \in Nat
      /\ clock \in Nat
  BY RequestShapes DEF TypeOK, File, Key, UploadReq, FileReq, Uploading, Holding
<1>3. /\ \A f \in files : f.key # k
      /\ \A p \in Req : Uploading(req[p]) => req[p].key # k
      /\ \A p \in Req : Holding(req[p]) => req[p].file.key # k
  BY <1>1, <1>2 DEF KeyInv, KeysSpent
<1>4. KeysSpent' /\ OneRowPerKey'
  BY <1>1, <1>2 DEF KeyInv, KeysSpent, OneRowPerKey, Uploading, Holding
<1>5. KeysOwned' /\ PendingUnlisted'
  BY <1>1, <1>3 DEF KeyInv, KeysOwned, PendingUnlisted, Uploading, Pending
<1>6. PendingUnheld' /\ HeldByKey' /\ DeletedUnlisted'
  BY <1>1, <1>3 DEF KeyInv, PendingUnheld, HeldByKey, DeletedUnlisted, Holding, Pending
<1>7. BytesInv'
  BY <1>1 DEF BytesInv, BytesBehindRows, SavedBytes, HeldBytes, Holding
<1> QED
  BY <1>4, <1>5, <1>6, <1>7 DEF KeyInv

LEMMA SaveBytesKeys ==
  ASSUME TypeOK, KeyInv, BytesInv, NEW r \in Req, SaveBytes(r)
  PROVE  KeyInv' /\ BytesInv'
<1> DEFINE k == req[r].key  c == req[r].content
<1>1. req[r] \in UploadReq /\ req[r].pc = "save"
  BY RequestShapes DEF SaveBytes
<1>2. /\ req'[r].pc = "insert" /\ req'[r].key = k /\ req'[r].content = c
      /\ \A p \in Req : p # r => req'[p] = req[p]
      /\ UNCHANGED <<files, clock>>
  BY <1>1, Frame DEF SaveBytes, UploadReq, tables
<1>3. /\ \A f \in files : f.key # k
      /\ \A p \in Req : p # r /\ Uploading(req[p]) => req[p].key # k
      /\ \A p \in Req : Holding(req[p]) => req[p].file.key # k
  BY <1>1 DEF KeyInv, KeysOwned, PendingUnlisted, PendingUnheld, Uploading, Pending
<1>4. KeyInv'
  BY <1>1, <1>2, <1>3 DEF KeyInv, KeysSpent, OneRowPerKey, KeysOwned, PendingUnlisted,
     PendingUnheld, HeldByKey, DeletedUnlisted, Uploading, Holding, Pending
<1>5. blobs' = Put(k, c)
  BY DEF SaveBytes
<1> HIDE DEF k, c
<1>6. DOMAIN blobs' = DOMAIN blobs \cup {k} /\ blobs'[k] = c
  BY <1>5, BlobOps
<1>7. \A j \in DOMAIN blobs : j # k => blobs'[j] = blobs[j]
  BY <1>5 DEF Put
<1>8. BytesInv'
  BY <1>1, <1>2, <1>3, <1>6, <1>7 DEF BytesInv, BytesBehindRows, SavedBytes, HeldBytes,
     Uploading, Holding
<1> QED
  BY <1>4, <1>8

\* A committed INSERT ends the upload, or leaves it cancelled.
LEMMA InsertedKeys ==
  ASSUME TypeOK, KeyInv, BytesInv, NEW r \in Req, req[r].pc = "insert",
         files' = files \cup {RowFor(req[r])}, UNCHANGED <<blobs, clock>>,
         \A p \in Req : p # r => req'[p] = req[p],
         \/ req'[r].pc = "idle"
         \/ req'[r].pc = "cleanup" /\ req'[r].cancelled /\ req'[r].key = req[r].key
  PROVE  KeyInv' /\ BytesInv'
<1> DEFINE n == RowFor(req[r])
<1>1. n.key = req[r].key /\ n.sha = req[r].content
  BY DEF RowFor
<1>2. /\ \A f \in files : f.key # n.key
      /\ \A p \in Req : p # r /\ Uploading(req[p]) => req[p].key # n.key
      /\ \A p \in Req : Holding(req[p]) => req[p].file.key # n.key
      /\ n.key \in DOMAIN blobs /\ blobs[n.key] = n.sha
      /\ n.key.time <= clock
  BY <1>1 DEF KeyInv, KeysSpent, KeysOwned, PendingUnlisted, PendingUnheld, Uploading, Pending,
     BytesInv, SavedBytes
<1> HIDE DEF n
<1>3. files' = files \cup {n}
  BY DEF n
<1>4. KeysSpent' /\ OneRowPerKey' /\ KeysOwned'
  BY <1>1, <1>2, <1>3 DEF KeyInv, KeysSpent, OneRowPerKey, KeysOwned, Uploading, Holding
<1>5. PendingUnlisted' /\ PendingUnheld'
  BY <1>1, <1>2, <1>3 DEF KeyInv, PendingUnlisted, PendingUnheld, Uploading, Holding, Pending
<1>6. HeldByKey' /\ DeletedUnlisted'
  BY <1>1, <1>2, <1>3 DEF KeyInv, HeldByKey, DeletedUnlisted, Holding
<1>7. BytesInv'
  BY <1>2, <1>3 DEF BytesInv, BytesBehindRows, SavedBytes, HeldBytes, Holding
<1> QED
  BY <1>4, <1>5, <1>6, <1>7 DEF KeyInv

\* Delete and Download take up a row that is listed.
LEMMA HoldKeys ==
  ASSUME TypeOK, KeyInv, BytesInv, NEW r \in Req, NEW f \in files,
         req'[r].pc \in {"lock", "open"}, req'[r].file = f,
         \A p \in Req : p # r => req'[p] = req[p],
         UNCHANGED <<files, blobs, clock>>
  PROVE  KeyInv' /\ BytesInv'
<1>1. KeysSpent' /\ OneRowPerKey' /\ KeysOwned'
  BY DEF KeyInv, KeysSpent, OneRowPerKey, KeysOwned, Uploading, Holding
<1>2. PendingUnlisted' /\ PendingUnheld'
  BY DEF KeyInv, PendingUnlisted, PendingUnheld, Holding, Pending
<1>3. HeldByKey' /\ DeletedUnlisted'
  BY DEF KeyInv, OneRowPerKey, HeldByKey, DeletedUnlisted, Holding
<1>4. BytesInv'
  BY DEF BytesInv, BytesBehindRows, SavedBytes, HeldBytes, Holding
<1> QED
  BY <1>1, <1>2, <1>3, <1>4 DEF KeyInv

LEMMA DeletedKeys ==
  ASSUME TypeOK, KeyInv, BytesInv, NEW r \in Req, req[r].pc = "commit",
         SwapRow(req[r]), UNCHANGED <<blobs, clock>>,
         \A p \in Req : p # r => req'[p] = req[p],
         \/ req'[r].pc = "unlink" /\ req'[r].file = req[r].file
         \/ req'[r].pc = "idle"
  PROVE  KeyInv' /\ BytesInv'
<1>1. files' \subseteq files
  BY DEF SwapRow
<1>2. \A g \in files' : g.key # req[r].file.key
  BY DEF SwapRow, KeyInv, HeldByKey, Holding
<1>3. KeysSpent' /\ OneRowPerKey' /\ KeysOwned'
  BY <1>1 DEF KeyInv, KeysSpent, OneRowPerKey, KeysOwned, Uploading, Holding
<1>4. PendingUnlisted' /\ PendingUnheld'
  BY <1>1 DEF KeyInv, PendingUnlisted, PendingUnheld, Holding, Pending
<1>5. HeldByKey' /\ DeletedUnlisted'
  BY <1>1, <1>2 DEF KeyInv, HeldByKey, DeletedUnlisted, Holding
<1>6. BytesInv'
  BY <1>1 DEF BytesInv, BytesBehindRows, SavedBytes, HeldBytes, Holding
<1> QED
  BY <1>3, <1>4, <1>5, <1>6 DEF KeyInv

\* Bytes go only when no row names them and no insert is about to.
LEMMA UnlinkedKeys ==
  ASSUME TypeOK, KeyInv, BytesInv, NEW r \in Req, NEW k, NEW x, Unlink(k, x), Return(r),
         ~x => /\ \A f \in files : f.key # k
               /\ \A p \in Req : req[p].pc = "insert" => req[p].key # k,
         UNCHANGED <<files, clock>>
  PROVE  KeyInv' /\ BytesInv'
<1>1. \A p \in Req : req'[p] = req[p] \/ req'[p] = Idle
  BY FrameReturn
<1>2. \A p \in Req : Tame(p)
  BY <1>1, RequestShapes DEF Tame, Uploading, Holding, Idle, UploadReq, FileReq
<1>3. KeyInv'
  BY <1>2, TameKeys
<1>4. CASE UNCHANGED blobs
  BY <1>2, <1>4, <1>3, TameBytes
<1>5. CASE blobs' = Remove(k) /\ ~x
  <2>1. /\ DOMAIN blobs' = DOMAIN blobs \ {k}
        /\ \A j \in DOMAIN blobs \ {k} : blobs'[j] = blobs[j]
    BY <1>5 DEF Remove
  <2> QED
    BY <1>1, <1>3, <1>5, <2>1 DEF BytesInv, BytesBehindRows, SavedBytes, HeldBytes, Holding, Idle
<1> QED
  BY <1>4, <1>5 DEF Unlink

LEMMA KeyNext ==
  ASSUME "connLoss" \notin Faults, TypeOK, KeyInv, BytesInv, [Next]_vars
  PROVE  KeyInv' /\ BytesInv'
<1> DEFINE Keep == KeyInv' /\ BytesInv'
<1>1. ASSUME NEW r \in Req, Start(r) PROVE Keep
  <2>1. ASSUME NEW u \in User, NEW b \in Filename, NEW c \in Content, StartUpload(r, u, b, c)
        PROVE  Keep
    BY <2>1, StartUploadKeys
  <2>2. ASSUME NEW u \in User, NEW id, StartDelete(r, u, id) PROVE Keep
    BY <2>2, Frame, HoldKeys DEF StartDelete, GetByID, tables
  <2>3. ASSUME NEW u \in User, NEW id, StartDownload(r, u, id) PROVE Keep
    BY <2>3, Frame, HoldKeys DEF StartDownload, GetByID, tables
  <2> QED
    BY <1>1, <2>1, <2>2, <2>3 DEF Start, StartContent
<1>2. ASSUME NEW r \in Req, InsertRow(r) PROVE Keep
  BY <1>2, Frame, InsertedKeys DEF InsertRow, Return, Idle
<1>3. ASSUME NEW r \in Req, InsertUnacked(r) PROVE Keep
  <2>1. req[r] \in UploadReq
    BY <1>3, RequestShapes DEF InsertUnacked
  <2>2. /\ \A p \in Req : p # r => req'[p] = req[p]
        /\ req'[r] = [req[r] EXCEPT !.pc = "cleanup", !.cancelled = TRUE]
    BY <1>3, Frame DEF InsertUnacked
  <2>3. req'[r].pc = "cleanup" /\ req'[r].cancelled /\ req'[r].key = req[r].key
    BY <2>1, <2>2 DEF UploadReq
  <2> QED
    BY <1>3, <2>2, <2>3, InsertedKeys DEF InsertUnacked
<1>4. ASSUME NEW r \in Req, SaveFails(r) \/ DeleteFails(r) \/ OpenBytes(r) PROVE Keep
  <2>1. \A p \in Req : req'[p] = req[p] \/ req'[p] = Idle
    BY <1>4, FrameReturn DEF SaveFails, DeleteFails, OpenBytes
  <2>2. \A p \in Req : Tame(p)
    BY <2>1, RequestShapes DEF Tame, Uploading, Holding, Idle, UploadReq, FileReq
  <2> QED
    BY <1>4, <2>2, TameKeys, TameBytes DEF SaveFails, DeleteFails, OpenBytes, tables
<1>5. ASSUME NEW r \in Req, InsertConflict(r) \/ InsertFails(r) PROVE Keep
  <2>1. req[r] \in UploadReq /\ req[r].pc = "insert"
    BY <1>5, RequestShapes DEF InsertConflict, InsertFails
  <2>2. /\ \A p \in Req : p # r => req'[p] = req[p]
        /\ \/ req'[r] = [req[r] EXCEPT !.pc = "cleanup"]
           \/ req'[r] = [req[r] EXCEPT !.attempt = @ + 1]
    BY <1>5, Frame DEF InsertConflict, InsertFails
  <2>3. Tame(r)
    BY <2>1, <2>2 DEF Tame, Uploading, Pending, UploadReq
  <2>4. \A p \in Req : p # r => Tame(p)
    BY <2>2, RequestShapes DEF Tame, Uploading, Holding, Idle, UploadReq, FileReq
  <2> QED
    BY <1>5, <2>3, <2>4, TameKeys, TameBytes DEF InsertConflict, InsertFails, tables
<1>6. ASSUME NEW r \in Req, LockRow(r) PROVE Keep
  <2>1. req[r] \in FileReq /\ req[r].pc = "lock"
    BY <1>6, RequestShapes DEF LockRow
  <2>2. /\ \A p \in Req : p # r => req'[p] = req[p]
        /\ \/ req'[r] = [req[r] EXCEPT !.pc = "record"]
           \/ req'[r] = Idle
    BY <1>6, Frame DEF LockRow
  <2>3. Tame(r)
    BY <2>1, <2>2 DEF Tame, Holding, FileReq, Idle
  <2>4. \A p \in Req : p # r => Tame(p)
    BY <2>2, RequestShapes DEF Tame, Uploading, Holding, Idle, UploadReq, FileReq
  <2> QED
    BY <1>6, <2>3, <2>4, TameKeys, TameBytes DEF LockRow, tables
<1>7. ASSUME NEW r \in Req, CommitDelete(r) PROVE Keep
  <2>1. req[r] \in FileReq
    BY <1>7, RequestShapes DEF CommitDelete
  <2>2. req'[r].pc = "unlink" /\ req'[r].file = req[r].file
    BY <1>7, <2>1, Frame DEF CommitDelete, FileReq
  <2> QED
    BY <1>7, <2>2, Frame, DeletedKeys DEF CommitDelete
<1>8. ASSUME NEW r \in Req, CommitUnacked(r) PROVE Keep
  BY <1>8, Frame, DeletedKeys DEF CommitUnacked, Return, Idle
<1>9. ASSUME NEW r \in Req, Cleanup(r) PROVE Keep
  <2>1. req[r] \in UploadReq /\ req[r].pc = "cleanup"
    BY <1>9, RequestShapes DEF Cleanup
  <2>2. ~req[r].cancelled =>
          /\ \A f \in files : f.key # req[r].key
          /\ \A p \in Req : req[p].pc = "insert" => req[p].key # req[r].key
    BY <2>1 DEF KeyInv, PendingUnlisted, KeysOwned, Pending, Uploading
  <2> QED
    BY <1>9, <2>2, UnlinkedKeys DEF Cleanup, tables
<1>10. ASSUME NEW r \in Req, RemoveBytes(r) PROVE Keep
  <2>1. /\ \A f \in files : f.key # req[r].file.key
        /\ \A p \in Req : req[p].pc = "insert" => req[p].key # req[r].file.key
    BY <1>10 DEF RemoveBytes, KeyInv, DeletedUnlisted, PendingUnheld, Pending, Holding
  <2> QED
    BY <1>10, <2>1, UnlinkedKeys DEF RemoveBytes, tables
<1>11. ASSUME NEW r \in Req, Cancel(r) PROVE Keep
  <2>1. req[r] \in UploadReq \cup FileReq
    BY <1>11, RequestShapes DEF Cancel
  <2>2. /\ \A p \in Req : p # r => req'[p] = req[p]
        /\ req'[r] = [req[r] EXCEPT !.cancelled = TRUE]
    BY <1>11, Frame DEF Cancel
  <2>3. Tame(r)
    BY <2>1, <2>2 DEF Tame, Uploading, Pending, Holding, UploadReq, FileReq
  <2>4. \A p \in Req : p # r => Tame(p)
    BY <2>2, RequestShapes DEF Tame, Uploading, Holding, Idle, UploadReq, FileReq
  <2> QED
    BY <1>11, <2>3, <2>4, TameKeys, TameBytes DEF Cancel, tables
<1>12. ASSUME Crash PROVE Keep
  BY <1>12, TameKeys, TameBytes DEF Crash, Tame, Idle, tables
<1>13. ASSUME UNCHANGED vars PROVE Keep
  <2>1. \A p \in Req : Tame(p)
    BY <1>13, RequestShapes DEF vars, Tame, Uploading, Holding, Pending, Idle, UploadReq, FileReq
  <2> QED
    BY <1>13, <2>1, TameKeys, TameBytes DEF vars
<1>14. ASSUME NEW r \in Req, SaveBytes(r) PROVE Keep
  BY <1>14, SaveBytesKeys
<1>15. ASSUME NEW r \in Req, InsertTombstone(r) PROVE Keep
  <2>1. req[r] \in FileReq /\ req[r].pc = "record"
    BY <1>15, RequestShapes DEF InsertTombstone
  <2>2. /\ \A p \in Req : p # r => req'[p] = req[p]
        /\ req'[r].pc = "commit" /\ req'[r].file = req[r].file
    BY <1>15, FrameTombstone
  <2>3. Tame(r)
    BY <2>1, <2>2 DEF Tame, Holding
  <2>4. \A p \in Req : p # r => Tame(p)
    BY <2>2, RequestShapes DEF Tame, Uploading, Holding, Idle, UploadReq, FileReq
  <2> QED
    BY <1>15, <2>3, <2>4, TameKeys, TameBytes DEF InsertTombstone
<1> QED
  BY <1>1, <1>2, <1>3, <1>4, <1>5, <1>6, <1>7, <1>8, <1>9, <1>10, <1>11, <1>12, <1>13, <1>14, <1>15
  DEF Next, Serve, Proceed, Fail

LEMMA KeyCorrect ==
  ASSUME "connLoss" \notin Faults
  PROVE  Spec => [](TypeOK /\ KeyInv /\ BytesInv)
<1>1. Init => TypeOK /\ KeyInv /\ BytesInv
  BY TypeInit, KeyInit
<1>2. TypeOK /\ KeyInv /\ BytesInv /\ [Next]_vars => (TypeOK /\ KeyInv /\ BytesInv)'
  BY TypeNext, KeyNext
<1> QED
  BY <1>1, <1>2, PTL DEF Spec

\* Every listed file has its own bytes on disk under cancellation, failing
\* queries, failing unlinks and crashes, for any number of requests: the only
\* fault that can break it is an INSERT that commits and reports an error
\* while its request lives on.
THEOREM Bytes == ASSUME "connLoss" \notin Faults PROVE Spec => []BytesBehindRows
<1>1. BytesInv => BytesBehindRows
  BY DEF BytesInv
<1> QED
  BY <1>1, KeyCorrect, PTL

\* A download never serves another file's bytes and never fails on a file that
\* is still listed.
THEOREM Downloads == ASSUME "connLoss" \notin Faults PROVE Spec => []DownloadServesItsRow
<1>1. BytesInv => DownloadServesItsRow
  BY DEF BytesInv, BytesBehindRows, HeldBytes, DownloadServesItsRow, Holding
<1> QED
  BY <1>1, KeyCorrect, PTL

-----------------------------------------------------------------------------
\* Bytes are accounted for as long as nothing cuts a request off.
Listed(k) == \E f \in files : f.key = k

Claims(q, k) ==
  \/ q.pc \in {"insert", "cleanup"} /\ q.key = k
  \/ q.pc = "unlink" /\ q.file.key = k

NoneCancelled == \A r \in Req : req[r] # Idle => ~req[r].cancelled

\* A step of one slot only has to account for the keys it touched.
LEMMA OneSlotAccounts ==
  ASSUME NoOrphanedBytes, NEW r \in Req, \A p \in Req : p # r => req'[p] = req[p],
         \A k \in DOMAIN blobs' :
           \/ \E f \in files' : f.key = k
           \/ Claims(req'[r], k)
           \/ k \in DOMAIN blobs /\ ~Listed(k) /\ ~Claims(req[r], k)
  PROVE  NoOrphanedBytes'
<1> SUFFICES ASSUME NEW k \in DOMAIN blobs',
                    ~(\E f \in files' : f.key = k), ~Claims(req'[r], k)
             PROVE  \E p \in Req : Claims(req'[p], k)
  BY DEF NoOrphanedBytes, Claims
<1>1. k \in DOMAIN blobs /\ ~Listed(k) /\ ~Claims(req[r], k)
  OBVIOUS
<1>2. PICK p \in Req : Claims(req[p], k)
  BY <1>1 DEF NoOrphanedBytes, Listed, Claims
<1> QED
  BY <1>1, <1>2

\* In particular a step that leaves rows and bytes alone and drops no claim.
LEMMA ClaimsKept ==
  ASSUME NoOrphanedBytes, NEW r \in Req, \A p \in Req : p # r => req'[p] = req[p],
         UNCHANGED <<files, blobs>>, \A k : Claims(req[r], k) => Claims(req'[r], k)
  PROVE  NoOrphanedBytes'
  BY OneSlotAccounts DEF Listed

\* Removing the bytes a request had in hand leaves no others unaccounted for.
LEMMA ClaimDropped ==
  ASSUME NoOrphanedBytes, NEW r \in Req, \A p \in Req : p # r => req'[p] = req[p],
         NEW key, \A k : Claims(req[r], k) => k = key, blobs' = Remove(key), UNCHANGED files
  PROVE  NoOrphanedBytes'
<1>1. DOMAIN blobs' = DOMAIN blobs \ {key}
  BY DEF Remove
<1> QED
  BY <1>1, OneSlotAccounts DEF Listed

LEMMA OrphansNext ==
  ASSUME Faults \subseteq {"dbError"},
         TypeOK, RowInv, NoneCancelled, NoOrphanedBytes, [Next]_vars
  PROVE  NoneCancelled' /\ NoOrphanedBytes'
<1>0. Idle.pc = "idle"
  BY DEF Idle
<1>1. ASSUME NEW r \in Req, NEW u \in User, NEW b \in Filename, NEW c \in Content,
             StartUpload(r, u, b, c)
      PROVE  NoneCancelled' /\ NoOrphanedBytes'
  <2>1. /\ req'[r].cancelled = FALSE
        /\ \A p \in Req : p # r => req'[p] = req[p]
        /\ \A k : ~Claims(req[r], k)
    BY <1>1, <1>0, Frame DEF StartUpload, Claims
  <2> QED
    BY <1>1, <2>1, ClaimsKept DEF StartUpload, NoneCancelled, tables
<1>2. ASSUME NEW r \in Req, SaveBytes(r) PROVE NoneCancelled' /\ NoOrphanedBytes'
  <2>1. req[r] \in UploadReq /\ ~req[r].cancelled /\ req[r].pc = "save"
    BY <1>2, <1>0, RequestShapes DEF SaveBytes, NoneCancelled
  <2>2. /\ \A p \in Req : p # r => req'[p] = req[p]
        /\ req'[r].pc = "insert" /\ req'[r].key = req[r].key /\ ~req'[r].cancelled
    BY <1>2, <2>1, Frame DEF SaveBytes, UploadReq
  <2>3. DOMAIN blobs' = DOMAIN blobs \cup {req[r].key} /\ files' = files
    BY <1>2 DEF SaveBytes, Put, tables
  <2>4. \A k : ~Claims(req[r], k)
    BY <2>1 DEF Claims
  <2> QED
    BY <2>2, <2>3, <2>4, OneSlotAccounts DEF NoneCancelled, Claims, Listed
<1>3. ASSUME NEW r \in Req, SaveFails(r) PROVE NoneCancelled' /\ NoOrphanedBytes'
  <2>1. /\ req'[r] = Idle
        /\ \A p \in Req : p # r => req'[p] = req[p]
        /\ \A k : ~Claims(req[r], k)
    BY <1>3, Frame DEF SaveFails, Return, Claims
  <2> QED
    BY <1>3, <2>1, ClaimsKept DEF SaveFails, NoneCancelled, tables
<1>4. ASSUME NEW r \in Req, InsertRow(r) PROVE NoneCancelled' /\ NoOrphanedBytes'
  <2>1. /\ req'[r] = Idle
        /\ \A p \in Req : p # r => req'[p] = req[p]
    BY <1>4, Frame DEF InsertRow, Return
  <2>2. \A k : Claims(req[r], k) => k = req[r].key
    BY <1>4 DEF InsertRow, Claims
  <2>3. files' = files \cup {RowFor(req[r])} /\ RowFor(req[r]).key = req[r].key /\ blobs' = blobs
    BY <1>4 DEF InsertRow, RowFor
  <2> QED
    BY <2>1, <2>2, <2>3, OneSlotAccounts DEF NoneCancelled, Listed
<1>5. ASSUME NEW r \in Req, InsertConflict(r) \/ InsertFails(r)
      PROVE  NoneCancelled' /\ NoOrphanedBytes'
  <2>1. req[r] \in UploadReq /\ ~req[r].cancelled /\ req[r].pc = "insert"
    BY <1>5, <1>0, RequestShapes DEF InsertConflict, InsertFails, NoneCancelled
  <2>2. \A p \in Req : p # r => req'[p] = req[p]
    BY <1>5, Frame DEF InsertConflict, InsertFails
  <2>3. req'[r].pc \in {"insert", "cleanup"} /\ req'[r].key = req[r].key /\ ~req'[r].cancelled
    BY <1>5, <2>1, Frame DEF InsertConflict, InsertFails, UploadReq
  <2>4. UNCHANGED <<files, blobs>>
    BY <1>5 DEF InsertConflict, InsertFails, tables
  <2> QED
    BY <2>1, <2>2, <2>3, <2>4, ClaimsKept DEF NoneCancelled, Claims
<1>6. ASSUME NEW r \in Req, Cleanup(r) \/ RemoveBytes(r)
      PROVE  NoneCancelled' /\ NoOrphanedBytes'
  <2> DEFINE key == IF req[r].pc = "cleanup" THEN req[r].key ELSE req[r].file.key
  <2>1. ~req[r].cancelled
    BY <1>6, <1>0 DEF Cleanup, RemoveBytes, NoneCancelled
  <2>2. blobs' = Remove(key) /\ files' = files
    BY <1>6, <2>1 DEF Cleanup, RemoveBytes, Unlink, tables
  <2>3. /\ req'[r] = Idle
        /\ \A p \in Req : p # r => req'[p] = req[p]
    BY <1>6, Frame DEF Cleanup, RemoveBytes, Return
  <2>4. \A k : Claims(req[r], k) => k = key
    BY <1>6 DEF Cleanup, RemoveBytes, Claims
  <2> QED
    BY <2>2, <2>3, <2>4, ClaimDropped DEF NoneCancelled
<1>7. ASSUME NEW r \in Req, NEW u, NEW id, StartDelete(r, u, id) \/ StartDownload(r, u, id)
      PROVE  NoneCancelled' /\ NoOrphanedBytes'
  <2>1. /\ req'[r].cancelled = FALSE
        /\ \A p \in Req : p # r => req'[p] = req[p]
        /\ \A k : ~Claims(req[r], k)
    <3>1. PICK pc \in {"lock", "open"}, f \in files :
            Step(r, [pc |-> pc, user |-> u, file |-> f, drawn |-> 0, cancelled |-> FALSE])
      BY <1>7 DEF StartDelete, StartDownload, GetByID
    <3>2. req[r].pc = "idle"
      BY <1>7, <1>0 DEF StartDelete, StartDownload
    <3> QED
      BY <3>1, <3>2, Frame DEF Claims
  <2> QED
    BY <1>7, <2>1, ClaimsKept DEF StartDelete, StartDownload, NoneCancelled, tables
<1>8. ASSUME NEW r \in Req, LockRow(r) \/ InsertTombstone(r) \/ DeleteFails(r) \/ OpenBytes(r)
      PROVE  NoneCancelled' /\ NoOrphanedBytes'
  <2>1. req[r] \in FileReq /\ ~req[r].cancelled /\ req[r].pc \in {"lock", "record", "commit", "open"}
    BY <1>8, <1>0, RequestShapes DEF LockRow, InsertTombstone, DeleteFails, OpenBytes, NoneCancelled
  <2>2. \A p \in Req : p # r => req'[p] = req[p]
    BY <1>8, Frame DEF LockRow, InsertTombstone, DeleteFails, OpenBytes, Return
  <2>3. req'[r] = Idle \/ ~req'[r].cancelled
    <3>1. CASE InsertTombstone(r)
      BY <3>1, <2>1, FrameTombstone
    <3> QED
      BY <1>8, <2>1, <3>1, Frame DEF LockRow, DeleteFails, OpenBytes, Return, FileReq
  <2>4. \A k : ~Claims(req[r], k)
    BY <2>1 DEF Claims
  <2> QED
    BY <1>8, <2>2, <2>3, <2>4, ClaimsKept
    DEF NoneCancelled, tables, LockRow, InsertTombstone, DeleteFails, OpenBytes
<1>9. ASSUME NEW r \in Req, CommitDelete(r) PROVE NoneCancelled' /\ NoOrphanedBytes'
  <2>1. req[r] \in FileReq /\ ~req[r].cancelled /\ req[r].pc = "commit"
    BY <1>9, <1>0, RequestShapes DEF CommitDelete, NoneCancelled
  <2>2. /\ \A p \in Req : p # r => req'[p] = req[p]
        /\ req'[r].pc = "unlink" /\ req'[r].file = req[r].file /\ ~req'[r].cancelled
    BY <1>9, <2>1, Frame DEF CommitDelete, FileReq
  <2>3. files' = files \ {req[r].file} /\ blobs' = blobs
    BY <1>9, <2>1 DEF CommitDelete, SwapRow, RowInv, OneRowPerId, CommitHolds, HoldsLock
  <2>4. \A k : ~Claims(req[r], k)
    BY <2>1 DEF Claims
  <2> QED
    BY <2>2, <2>3, <2>4, OneSlotAccounts DEF NoneCancelled, Claims, Listed
<1>10. ASSUME NEW r \in Req
       PROVE  ~InsertUnacked(r) /\ ~CommitUnacked(r) /\ ~Cancel(r)
  BY DEF InsertUnacked, CommitUnacked, Cancel
<1>11. ~Crash
  BY DEF Crash
<1>12. CASE UNCHANGED vars
  BY <1>12 DEF vars, NoneCancelled, NoOrphanedBytes
<1> QED
  BY <1>1, <1>2, <1>3, <1>4, <1>5, <1>6, <1>7, <1>8, <1>9, <1>10, <1>11, <1>12
  DEF Next, Start, Serve, Proceed, Fail, StartContent

\* While requests are served to their end and files can be removed, no bytes are
\* left behind, also when queries fail: a refused upload and a delete take theirs
\* along, and the row or a request names all others.
THEOREM NothingLeftBehind ==
  ASSUME Faults \subseteq {"dbError"} PROVE Spec => []NoOrphanedBytes
<1>1. Init => NoneCancelled /\ NoOrphanedBytes
  BY DEF Init, NoneCancelled, NoOrphanedBytes
<1>2. TypeOK /\ RowInv /\ NoneCancelled /\ NoOrphanedBytes /\ [Next]_vars
        => NoneCancelled' /\ NoOrphanedBytes'
  BY OrphansNext
<1> QED
  BY <1>1, <1>2, RowCorrect, PTL DEF Spec
=============================================================================
