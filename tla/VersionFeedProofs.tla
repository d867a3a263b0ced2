-------------------------- MODULE VersionFeedProofs --------------------------
(* The change feed for any number of writers and devices, however their      *)
(* transactions and diffs overlap.                                           *)
EXTENDS VersionFeed, TLAPS

Deleting(w) == tx[w] # NoTx /\ tx[w].kind = "delete"

Inserting(w) == tx[w] # NoTx /\ tx[w].kind = "insert"

\* Nothing runs ahead of the sequences.
Behind ==
  /\ idSeq <= seq /\ seq <= MaxVersion
  /\ \A r \in files \cup deletions : r.version <= seq /\ r.id \in 1..idSeq
  /\ \A w \in Writer : tx[w] # NoTx => tx[w].row.version <= seq /\ tx[w].row.id \in 1..idSeq
  /\ \A d \in Device : cursor[d] <= seq

\* A file's id is in one place at a time: open insert, row, or tombstone; the
\* row lock gives an id to one transaction.
OnePlace ==
  /\ \A f \in files, g \in deletions : f.id # g.id
  /\ \A w \in Writer : Inserting(w) => \A r \in files \cup deletions : r.id # tx[w].row.id
  /\ \A w \in Writer : Deleting(w) => tx[w].row.id \in Ids(files)
  /\ \A v, w \in Writer : tx[v] # NoTx /\ tx[w] # NoTx /\ v # w => tx[v].row.id # tx[w].row.id

\* A tombstone is newer than the row it replaces, also for a device that read
\* the row before.
Newer(c) ==
  /\ \A g \in deletions : g.id = c.id => c.version < g.version
  /\ \A w \in Writer : Deleting(w) /\ tx[w].row.id = c.id => c.version < tx[w].row.version

TombstonesNewer ==
  /\ \A f \in files : Newer(f)
  /\ \A d \in Device : diff[d] # NoDiff =>
       \A c \in diff[d].changed : /\ Newer(c) /\ cursor[d] < c.version
                                  /\ c.version <= seq /\ c.id \in 1..idSeq
                                  /\ \A w \in Writer : Inserting(w) => c.id # tx[w].row.id

FeedInv == TypeOK /\ Behind /\ OnePlace /\ TombstonesNewer

LEMMA FeedInit == Init => FeedInv
<1> SUFFICES ASSUME Init PROVE FeedInv
  OBVIOUS
<1>1. TypeOK
  BY DEF Init, TypeOK
<1>2. Behind /\ OnePlace /\ TombstonesNewer
  BY VersionFeedAssumption DEF Init, Behind, OnePlace, TombstonesNewer, Inserting, Deleting
<1> QED
  BY <1>1, <1>2 DEF FeedInv

\* Facts about the shapes of open transactions and reads.
LEMMA Shapes ==
  ASSUME TypeOK
  PROVE  /\ \A w \in Writer : tx[w] # NoTx => tx[w] \in Tx /\ tx[w].row \in Row
         /\ \A d \in Device : diff[d] # NoDiff => diff[d].changed \subseteq Row
         /\ \A r \in files \cup deletions : r.id \in Nat /\ r.version \in Nat
         /\ \A w \in Writer : tx[w] # NoTx => tx[w].row.id \in Nat /\ tx[w].row.version \in Nat
         /\ \A d \in Device : diff[d] # NoDiff =>
              \A c \in diff[d].changed : c.id \in Nat /\ c.version \in Nat
  BY DEF TypeOK, Tx, Diff, Row

LEMMA BeginTyped ==
  ASSUME FeedInv, NEW w \in Writer, NEW kind \in {"insert", "delete"}, NEW id \in Nat,
         Begin(w, kind, id)
  PROVE  /\ tx' \in [Writer -> {NoTx} \cup Tx]
         /\ tx'[w] = [kind |-> kind, row |-> [id |-> id, version |-> seq + 1]]
         /\ tx'[w] # NoTx
         /\ \A v \in Writer : v # w => tx'[v] = tx[v]
         /\ seq \in Nat /\ seq' = seq + 1 /\ seq' <= MaxVersion
         /\ raced' \in [Device -> SUBSET Nat]
<1>1. seq \in Nat /\ seq' = seq + 1 /\ seq' <= MaxVersion
  BY VersionFeedAssumption DEF FeedInv, TypeOK, Begin
<1> DEFINE t == [kind |-> kind, row |-> [id |-> id, version |-> seq + 1]]
<1>2. t \in Tx /\ t # NoTx
  BY <1>1 DEF Tx, Row, NoTx
<1>3. tx' = [tx EXCEPT ![w] = t]
  BY <1>1 DEF Begin
<1> HIDE DEF t
<1>4. tx' \in [Writer -> {NoTx} \cup Tx]
  BY <1>2, <1>3 DEF FeedInv, TypeOK
<1>5. tx'[w] = t /\ \A v \in Writer : v # w => tx'[v] = tx[v]
  BY <1>3 DEF FeedInv, TypeOK
<1>6. raced' \in [Device -> SUBSET Nat]
  BY <1>1 DEF Begin, FeedInv, TypeOK
<1> QED
  BY <1>1, <1>2, <1>4, <1>5, <1>6 DEF t

LEMMA InsertBegins ==
  ASSUME FeedInv, NEW w \in Writer, BeginInsert(w)
  PROVE  FeedInv'
<1>1. idSeq \in Nat /\ idSeq' = idSeq + 1
  BY DEF BeginInsert, FeedInv, TypeOK
<1>2. /\ tx' \in [Writer -> {NoTx} \cup Tx]
      /\ tx'[w] = [kind |-> "insert", row |-> [id |-> idSeq + 1, version |-> seq + 1]]
      /\ \A v \in Writer : v # w => tx'[v] = tx[v]
      /\ seq \in Nat /\ seq' = seq + 1 /\ seq' <= MaxVersion
      /\ raced' \in [Device -> SUBSET Nat]
      /\ UNCHANGED <<files, deletions, diff, cursor, view>>
  <2>1. Begin(w, "insert", idSeq + 1)
    BY <1>1 DEF BeginInsert
  <2>2. idSeq + 1 \in Nat
    BY <1>1
  <2>3. UNCHANGED <<files, deletions, diff, cursor, view>>
    BY <2>1 DEF Begin
  <2> QED
    BY <2>1, <2>2, <2>3, BeginTyped
<1>3. tx'[w].kind = "insert" /\ tx'[w].row.id = idSeq + 1 /\ tx'[w].row.version = seq + 1
  BY <1>2
<1>4. TypeOK'
  BY <1>1, <1>2 DEF FeedInv, TypeOK
<1>5. Behind'
  BY <1>1, <1>2, <1>3, Shapes DEF FeedInv, Behind, TypeOK
<1>6. OnePlace'
  BY <1>1, <1>2, <1>3, Shapes DEF FeedInv, OnePlace, Behind, Inserting, Deleting, Ids
<1>7. TombstonesNewer'
  BY <1>1, <1>2, <1>3, Shapes
  DEF FeedInv, TombstonesNewer, Newer, Behind, Inserting, Deleting, TypeOK
<1> QED
  BY <1>4, <1>5, <1>6, <1>7 DEF FeedInv

LEMMA DeleteBegins ==
  ASSUME FeedInv, NEW w \in Writer, NEW f \in files, BeginDelete(w, f)
  PROVE  FeedInv'
<1>1. f.id \in Nat /\ f.id \in 1..idSeq /\ f.version \in Nat
  BY Shapes DEF FeedInv, Behind
<1>2. /\ tx' \in [Writer -> {NoTx} \cup Tx]
      /\ tx'[w] = [kind |-> "delete", row |-> [id |-> f.id, version |-> seq + 1]]
      /\ \A v \in Writer : v # w => tx'[v] = tx[v] /\ (tx[v] # NoTx => tx[v].row.id # f.id)
      /\ seq \in Nat /\ seq' = seq + 1 /\ seq' <= MaxVersion
      /\ raced' \in [Device -> SUBSET Nat]
      /\ UNCHANGED <<files, deletions, diff, cursor, view, idSeq>>
  BY <1>1, BeginTyped DEF BeginDelete, Begin
<1>3. tx'[w].kind = "delete" /\ tx'[w].row.id = f.id /\ tx'[w].row.version = seq + 1
  BY <1>2
<1>4. TypeOK'
  BY <1>2 DEF FeedInv, TypeOK
<1>5. Behind'
  BY <1>1, <1>2, <1>3, Shapes DEF FeedInv, Behind, TypeOK
<1>6. OnePlace'
  BY <1>1, <1>2, <1>3, Shapes DEF FeedInv, OnePlace, Inserting, Deleting, Ids
<1>7. TombstonesNewer'
  BY <1>1, <1>2, <1>3, Shapes
  DEF FeedInv, TombstonesNewer, Newer, Behind, Inserting, Deleting, TypeOK
<1> QED
  BY <1>4, <1>5, <1>6, <1>7 DEF FeedInv

\* What ending a transaction does to the transactions.
LEMMA TxEnds ==
  ASSUME FeedInv, NEW w \in Writer, tx' = [tx EXCEPT ![w] = NoTx]
  PROVE  /\ tx' \in [Writer -> {NoTx} \cup Tx]
         /\ tx'[w] = NoTx
         /\ \A v \in Writer : v # w => tx'[v] = tx[v]
  BY DEF FeedInv, TypeOK

LEMMA Commits ==
  ASSUME FeedInv, NEW w \in Writer, Commit(w)
  PROVE  FeedInv'
<1> DEFINE row == tx[w].row
<1>1. /\ row \in Row /\ row.id \in 1..idSeq /\ row.version <= seq
      /\ row.id \in Nat /\ row.version \in Nat
      /\ tx[w].kind \in {"insert", "delete"} /\ tx[w] # NoTx
  BY Shapes DEF Commit, FeedInv, Behind, Tx, Row
<1>2. /\ tx' \in [Writer -> {NoTx} \cup Tx]
      /\ tx'[w] = NoTx
      /\ \A v \in Writer : v # w => tx'[v] = tx[v]
      /\ UNCHANGED <<idSeq, seq, diff, cursor, view, raced>>
  BY TxEnds DEF Commit
<1>3. CASE tx[w].kind = "insert"
  <2>1. files' = files \cup {row} /\ deletions' = deletions
    BY <1>3 DEF Commit
  <2>2. \A r \in files \cup deletions : r.id # row.id
    BY <1>1, <1>3 DEF FeedInv, OnePlace, Inserting
  <2>3. \A v \in Writer : v # w /\ tx[v] # NoTx => tx[v].row.id # row.id
    BY <1>1 DEF FeedInv, OnePlace
  <2>4. TypeOK'
    BY <1>1, <1>2, <2>1 DEF FeedInv, TypeOK
  <2>5. Behind'
    BY <1>1, <1>2, <2>1 DEF FeedInv, Behind
  <2>6. OnePlace'
    BY <1>1, <1>2, <2>1, <2>2, <2>3 DEF FeedInv, OnePlace, Inserting, Deleting, Ids
  <2>7. TombstonesNewer'
    BY <1>1, <1>2, <2>1, <2>2, <2>3 DEF FeedInv, TombstonesNewer, Newer, Inserting, Deleting
  <2> QED
    BY <2>4, <2>5, <2>6, <2>7 DEF FeedInv
<1>4. CASE tx[w].kind = "delete"
  <2>1. files' = {f \in files : f.id # row.id} /\ deletions' = deletions \cup {row}
    BY <1>4 DEF Commit
  <2>2. row.id \in Ids(files)
    BY <1>1, <1>4 DEF FeedInv, OnePlace, Deleting
  <2>3. \A v \in Writer : v # w /\ tx[v] # NoTx => tx[v].row.id # row.id
    BY <1>1 DEF FeedInv, OnePlace
  <2>4. TypeOK'
    BY <1>1, <1>2, <2>1 DEF FeedInv, TypeOK
  <2>5. Behind'
    BY <1>1, <1>2, <2>1 DEF FeedInv, Behind
  <2>6. OnePlace'
    BY <1>1, <1>2, <2>1, <2>2, <2>3 DEF FeedInv, OnePlace, Inserting, Deleting, Ids
  <2>7. TombstonesNewer'
    BY <1>1, <1>2, <1>4, <2>1 DEF FeedInv, TombstonesNewer, Newer, Inserting, Deleting
  <2> QED
    BY <2>4, <2>5, <2>6, <2>7 DEF FeedInv
<1> QED
  BY <1>1, <1>3, <1>4

LEMMA RollsBack ==
  ASSUME FeedInv, NEW w \in Writer, Rollback(w)
  PROVE  FeedInv'
<1>1. /\ tx' \in [Writer -> {NoTx} \cup Tx]
      /\ tx'[w] = NoTx
      /\ \A v \in Writer : v # w => tx'[v] = tx[v]
      /\ UNCHANGED <<files, deletions, idSeq, seq, diff, cursor, view, raced>>
  BY TxEnds DEF Rollback
<1> QED
  BY <1>1 DEF FeedInv, TypeOK, Behind, OnePlace, TombstonesNewer, Newer, Inserting, Deleting

LEMMA ReadsFiles ==
  ASSUME FeedInv, NEW d \in Device, ReadFiles(d)
  PROVE  FeedInv' /\ diff'[d] # NoDiff /\ diff'[d].changed = Since(files, cursor[d])
<1> DEFINE q == [pc |-> "deletions", changed |-> Since(files, cursor[d])]
<1>1. q \in Diff /\ q # NoDiff
  BY DEF Diff, Since, NoDiff, FeedInv, TypeOK
<1>2. diff' = [diff EXCEPT ![d] = q]
  BY DEF ReadFiles
<1>3. q.changed = Since(files, cursor[d])
  OBVIOUS
<1> HIDE DEF q
<1>4. /\ diff' \in [Device -> {NoDiff} \cup Diff]
      /\ diff'[d] = q /\ \A e \in Device : e # d => diff'[e] = diff[e]
      /\ UNCHANGED <<files, deletions, idSeq, seq, tx, cursor, view>>
  BY <1>1, <1>2 DEF ReadFiles, FeedInv, TypeOK
<1>8. raced' \in [Device -> SUBSET Nat]
  <2>1. Drawn \subseteq Nat
    BY Shapes DEF Drawn, FeedInv
  <2> QED
    BY <2>1 DEF ReadFiles, FeedInv, TypeOK
<1>5. TypeOK' /\ Behind' /\ OnePlace'
  BY <1>4, <1>8 DEF FeedInv, TypeOK, Behind, OnePlace, Inserting, Deleting
<1>6. \A c \in q.changed : /\ c \in files /\ cursor[d] < c.version
                           /\ c.version <= seq /\ c.id \in 1..idSeq
  BY <1>3, Shapes DEF Since, FeedInv, Behind, TypeOK
<1>7. TombstonesNewer'
  BY <1>4, <1>6 DEF FeedInv, TombstonesNewer, Newer, OnePlace, Inserting, Deleting
<1> QED
  BY <1>1, <1>3, <1>4, <1>5, <1>7 DEF FeedInv

LEMMA DiffEnds ==
  ASSUME FeedInv, NEW d \in Device, diff' = [diff EXCEPT ![d] = NoDiff]
  PROVE  /\ diff' \in [Device -> {NoDiff} \cup Diff]
         /\ diff'[d] = NoDiff
         /\ \A e \in Device : e # d => diff'[e] = diff[e]
  BY DEF FeedInv, TypeOK

\* The new cursor is a version the device has just read, or the old one.
LEMMA ReadsDeletions ==
  ASSUME FeedInv, NEW d \in Device, ReadDeletions(d)
  PROVE  /\ FeedInv'
         /\ cursor[d] <= cursor'[d] /\ cursor'[d] <= seq
         /\ \A e \in Device : e # d => cursor'[e] = cursor[e] /\ view'[e] = view[e]
         /\ view'[d] = (view[d] \cup Ids(diff[d].changed)) \ Ids(Since(deletions, cursor[d]))
<1> DEFINE rows == diff[d].changed \cup Since(deletions, cursor[d])
<1>1. PICK v \in {cursor[d]} \cup Versions(rows) :
        /\ cursor[d] <= v
        /\ cursor' = [cursor EXCEPT ![d] = v]
  BY DEF ReadDeletions, CurrentVersion
<1>2. \A r \in rows : r.version \in Nat /\ r.version <= seq
  BY Shapes DEF FeedInv, Behind, TombstonesNewer, Since, ReadDeletions
<1>3. v \in Nat /\ v <= seq
  BY <1>1, <1>2 DEF FeedInv, TypeOK, Behind, Versions
<1>4. /\ cursor' \in [Device -> Nat] /\ cursor'[d] = v
      /\ \A e \in Device : e # d => cursor'[e] = cursor[e]
  BY <1>1, <1>3 DEF FeedInv, TypeOK
<1>5. /\ diff' \in [Device -> {NoDiff} \cup Diff]
      /\ diff'[d] = NoDiff
      /\ \A e \in Device : e # d => diff'[e] = diff[e]
      /\ UNCHANGED <<files, deletions, idSeq, seq, tx>>
  BY DiffEnds DEF ReadDeletions, EndDiff
<1>6. (view[d] \cup Ids(diff[d].changed)) \ Ids(Since(deletions, cursor[d])) \in SUBSET Nat
  BY Shapes DEF ReadDeletions, Ids, FeedInv, TypeOK
<1>7. /\ view' \in [Device -> SUBSET Nat]
      /\ view'[d] = (view[d] \cup Ids(diff[d].changed)) \ Ids(Since(deletions, cursor[d]))
      /\ \A e \in Device : e # d => view'[e] = view[e]
  BY <1>6 DEF ReadDeletions, FeedInv, TypeOK
<1>11. /\ raced' \in [Device -> SUBSET Nat]
       /\ raced'[d] = raced[d] \ Versions(rows)
       /\ \A e \in Device : e # d => raced'[e] = raced[e]
  BY DEF ReadDeletions, FeedInv, TypeOK
<1>8. TypeOK'
  BY <1>4, <1>5, <1>7, <1>11 DEF FeedInv, TypeOK
<1>9. Behind' /\ OnePlace'
  BY <1>3, <1>4, <1>5 DEF FeedInv, Behind, OnePlace, Inserting, Deleting
<1>10. TombstonesNewer'
  BY <1>4, <1>5 DEF FeedInv, TombstonesNewer, Newer, Inserting, Deleting
<1> QED
  BY <1>1, <1>3, <1>4, <1>7, <1>8, <1>9, <1>10 DEF FeedInv

LEMMA LosesReport ==
  ASSUME FeedInv, NEW d \in Device, LoseReport(d)
  PROVE  FeedInv'
<1>1. /\ diff' \in [Device -> {NoDiff} \cup Diff]
      /\ diff'[d] = NoDiff
      /\ \A e \in Device : e # d => diff'[e] = diff[e]
      /\ UNCHANGED <<files, deletions, idSeq, seq, tx, cursor, view, raced>>
  BY DiffEnds DEF LoseReport, EndDiff
<1> QED
  BY <1>1 DEF FeedInv, TypeOK, Behind, OnePlace, TombstonesNewer, Newer, Inserting, Deleting

LEMMA FeedNext == FeedInv /\ [Next]_vars => FeedInv'
<1> SUFFICES ASSUME FeedInv, [Next]_vars PROVE FeedInv'
  OBVIOUS
<1>1. CASE UNCHANGED vars
  BY <1>1 DEF vars, FeedInv, TypeOK, Behind, OnePlace, TombstonesNewer, Newer, Inserting, Deleting
<1> QED
  BY <1>1, InsertBegins, DeleteBegins, Commits, RollsBack, ReadsFiles, ReadsDeletions, LosesReport
  DEF Next

LEMMA FeedCorrect == Spec => []FeedInv
  BY FeedInit, FeedNext, PTL DEF Spec

\* Type correctness of the feed, however reads and writes overlap.
THEOREM FeedTypes == Spec => []TypeOK
<1>1. FeedInv => TypeOK
  BY DEF FeedInv
<1> QED
  BY <1>1, FeedCorrect, PTL

-----------------------------------------------------------------------------
(* Cursors and deletions *)

\* A deletion a device was told of is final for it: the row a diff read before
\* is older than the tombstone, so it is not read again once the tombstone is
\* behind the cursor.
THEOREM DeletionsStick == Spec => DeletionSticks
<1> DEFINE Sticks == \A d \in Device, g \in deletions :
      g.version <= cursor[d] /\ g.id \notin view[d] => g.id \notin view'[d]
<1>1. FeedInv /\ [Next]_vars => [Sticks]_vars
  <2> SUFFICES ASSUME FeedInv, [Next]_vars PROVE [Sticks]_vars
    OBVIOUS
  <2>1. CASE UNCHANGED view
    BY <2>1
  <2>2. ASSUME NEW d \in Device, ReadDeletions(d) PROVE Sticks
    <3> SUFFICES ASSUME NEW g \in deletions, g.version <= cursor[d], g.id \notin view[d]
                 PROVE  g.id \notin view'[d]
      BY <2>2, ReadsDeletions
    <3>1. \A c \in diff[d].changed : c.id # g.id
      BY <2>2, Shapes DEF FeedInv, TombstonesNewer, Newer, ReadDeletions, TypeOK
    <3> QED
      BY <2>2, <3>1, ReadsDeletions DEF Ids
  <2> QED
    BY <2>1, <2>2 DEF Next, vars, BeginInsert, BeginDelete, Begin, Commit, Rollback,
       ReadFiles, LoseReport
<1>2. Spec => [][Sticks]_vars
  BY <1>1, FeedCorrect, PTL DEF Spec
<1> QED
  BY <1>2 DEF DeletionSticks

\* Cursors move forward and stay behind the sequence.
THEOREM CursorsAdvance == Spec => CursorAdvances
<1> DEFINE Advances == \A d \in Device : cursor[d] <= cursor'[d] /\ cursor'[d] <= seq
<1>1. FeedInv /\ [Next]_vars => [Advances]_vars
  <2> SUFFICES ASSUME FeedInv, [Next]_vars PROVE [Advances]_vars
    OBVIOUS
  <2>1. \A d \in Device : cursor[d] \in Nat /\ cursor[d] <= seq
    BY DEF FeedInv, TypeOK, Behind
  <2>2. CASE UNCHANGED cursor
    BY <2>1, <2>2
  <2>3. ASSUME NEW d \in Device, ReadDeletions(d) PROVE Advances
    BY <2>1, <2>3, ReadsDeletions
  <2> QED
    BY <2>2, <2>3 DEF Next, vars, BeginInsert, BeginDelete, Begin, Commit, Rollback,
       ReadFiles, LoseReport
<1>2. Spec => [][Advances]_vars
  BY <1>1, FeedCorrect, PTL DEF Spec
<1> QED
  BY <1>2 DEF CursorAdvances

-----------------------------------------------------------------------------
(* What a device may miss, and what it cannot *)

\* Every row that is committed, or was when a diff in progress read it.
Rows == files \cup deletions
          \cup UNION {diff[d].changed : d \in {d \in Device : diff[d] # NoDiff}}

\* A version is drawn once: by an open transaction, or for a row.
DrawnOnce ==
  /\ \A r, s \in Rows : r.version = s.version => r = s
  /\ \A w \in Writer : tx[w] # NoTx => \A r \in Rows : r.version # tx[w].row.version
  /\ \A v, w \in Writer :
       tx[v] # NoTx /\ tx[w] # NoTx /\ v # w => tx[v].row.version # tx[w].row.version

\* A transaction a diff overlaps is on record, and stays so until it is named.
OverlapsKnown ==
  \A d \in Device, w \in Writer : tx[w] # NoTx =>
    /\ diff[d] # NoDiff => tx[w].row.version \in raced[d]
    /\ tx[w].row.version <= cursor[d] => tx[w].row.version \in raced[d]

\* What a diff did not read was under way while it ran.
ReadOrRaced ==
  \A d \in Device, f \in files : diff[d] # NoDiff /\ cursor[d] < f.version =>
    f \in diff[d].changed \/ f.version \in raced[d]

\* Views and reads hold only ids that exist or existed.
KnownIds ==
  \A d \in Device :
    /\ view[d] \subseteq Ids(files) \cup Ids(deletions)
    /\ diff[d] # NoDiff => Ids(diff[d].changed) \subseteq Ids(files) \cup Ids(deletions)

RaceInv == DrawnOnce /\ OverlapsKnown /\ ReadOrRaced /\ KnownIds /\ MissedOnlyInRace

LEMMA RaceInit == Init => RaceInv
  BY DEF Init, RaceInv, Rows, DrawnOnce, OverlapsKnown, ReadOrRaced, KnownIds, MissedOnlyInRace, Ids

LEMMA RaceBegins ==
  ASSUME FeedInv, RaceInv, NEW w \in Writer, NEW kind \in {"insert", "delete"}, NEW id \in Nat,
         Begin(w, kind, id)
  PROVE  RaceInv'
<1>1. /\ tx[w] = NoTx /\ UNCHANGED <<files, deletions, diff, cursor, view>>
      /\ seq \in Nat /\ seq' = seq + 1
  BY BeginTyped DEF Begin
<1>2. /\ tx'[w].row.version = seq + 1
      /\ \A v \in Writer : v # w => tx'[v] = tx[v]
  <2>1. /\ tx'[w] = [kind |-> kind, row |-> [id |-> id, version |-> seq + 1]]
        /\ \A v \in Writer : v # w => tx'[v] = tx[v]
    BY BeginTyped
  <2> QED
    BY <2>1
<1>3. \A d \in Device :
        /\ raced[d] \subseteq raced'[d]
        /\ diff[d] # NoDiff => seq + 1 \in raced'[d]
  BY <1>1 DEF Begin, FeedInv, TypeOK
<1>4. /\ \A r \in Rows : r.version \in Nat /\ r.version <= seq
      /\ \A v \in Writer : tx[v] # NoTx => tx[v].row.version \in Nat /\ tx[v].row.version <= seq
      /\ \A d \in Device : cursor[d] \in Nat /\ cursor[d] <= seq
  BY Shapes DEF FeedInv, Behind, TypeOK, Rows, TombstonesNewer
<1>9. Rows' = Rows
  BY <1>1 DEF Rows
<1>5. DrawnOnce'
  BY <1>1, <1>2, <1>4, <1>9 DEF RaceInv, DrawnOnce
<1>6. OverlapsKnown'
  BY <1>1, <1>2, <1>3, <1>4 DEF RaceInv, OverlapsKnown
<1>7. ReadOrRaced' /\ KnownIds' /\ MissedOnlyInRace'
  BY <1>1, <1>3 DEF RaceInv, ReadOrRaced, KnownIds, MissedOnlyInRace, Ids
<1> QED
  BY <1>5, <1>6, <1>7 DEF RaceInv

LEMMA RaceCommits ==
  ASSUME FeedInv, RaceInv, NEW w \in Writer, Commit(w)
  PROVE  RaceInv'
<1> DEFINE row == tx[w].row
<1>1. /\ tx[w] # NoTx /\ UNCHANGED <<diff, cursor, view, raced>>
      /\ tx'[w] = NoTx /\ \A v \in Writer : v # w => tx'[v] = tx[v]
  BY TxEnds DEF Commit
<1>2. /\ \A v \in Writer : v # w /\ tx[v] # NoTx => tx[v].row.version # row.version
      /\ \A r \in Rows : r.version # row.version
      /\ \A d \in Device : diff[d] # NoDiff => row.version \in raced[d]
      /\ \A d \in Device : row.version <= cursor[d] => row.version \in raced[d]
  BY <1>1 DEF RaceInv, DrawnOnce, OverlapsKnown
<1>3. /\ files' \subseteq files \cup {row} /\ deletions' \subseteq deletions \cup {row}
      /\ Ids(files) \cup Ids(deletions) \subseteq Ids(files') \cup Ids(deletions')
  <2>1. CASE files' = files \cup {row} /\ deletions' = deletions
    BY <2>1 DEF Ids
  <2>2. CASE files' = {f \in files : f.id # row.id} /\ deletions' = deletions \cup {row}
    BY <2>2 DEF Ids
  <2> QED
    BY <2>1, <2>2 DEF Commit
<1> HIDE DEF row
<1>9. Rows' \subseteq Rows \cup {row}
  BY <1>1, <1>3 DEF Rows
<1>4. DrawnOnce'
  BY <1>1, <1>2, <1>9 DEF RaceInv, DrawnOnce
<1>5. OverlapsKnown'
  BY <1>1 DEF RaceInv, OverlapsKnown
<1>6. ReadOrRaced'
  BY <1>1, <1>2, <1>3 DEF RaceInv, ReadOrRaced
<1>7. KnownIds'
  BY <1>1, <1>3 DEF RaceInv, KnownIds
<1>8. MissedOnlyInRace'
  BY <1>1, <1>2, <1>3 DEF RaceInv, MissedOnlyInRace
<1> QED
  BY <1>4, <1>5, <1>6, <1>7, <1>8 DEF RaceInv

LEMMA RaceReads ==
  ASSUME FeedInv, RaceInv, NEW d \in Device, ReadFiles(d)
  PROVE  RaceInv'
<1>1. /\ diff'[d].changed = Since(files, cursor[d])
      /\ \A e \in Device : e # d => diff'[e] = diff[e]
  BY ReadsFiles DEF ReadFiles, FeedInv, TypeOK
<1>2. /\ UNCHANGED <<files, deletions, tx, cursor, view>>
      /\ raced'[d] = raced[d] \cup Drawn
      /\ \A e \in Device : e # d => raced'[e] = raced[e]
  BY DEF ReadFiles, FeedInv, TypeOK
<1>3. \A w \in Writer : tx[w] # NoTx => tx[w].row.version \in Drawn
  BY DEF Drawn
<1>8. Rows' \subseteq Rows
  BY <1>1, <1>2 DEF Rows, Since
<1>4. DrawnOnce' /\ OverlapsKnown'
  BY <1>1, <1>2, <1>3, <1>8 DEF RaceInv, DrawnOnce, OverlapsKnown
<1>5. ReadOrRaced'
  BY <1>1, <1>2 DEF RaceInv, ReadOrRaced, Since
<1>6. KnownIds'
  BY <1>1, <1>2 DEF RaceInv, KnownIds, Ids, Since
<1>7. MissedOnlyInRace'
  BY <1>1, <1>2 DEF RaceInv, MissedOnlyInRace
<1> QED
  BY <1>4, <1>5, <1>6, <1>7 DEF RaceInv

\* What a report does to the record of overlaps.
LEMMA ReportNames ==
  ASSUME FeedInv, NEW d \in Device, ReadDeletions(d)
  PROVE  /\ \A v \in raced[d] : v \in raced'[d]
              \/ \E r \in diff[d].changed \cup Since(deletions, cursor[d]) : r.version = v
         /\ raced'[d] \subseteq raced[d]
         /\ \A r \in diff[d].changed \cup Since(deletions, cursor[d]) : cursor[d] < r.version
         /\ \A e \in Device : e # d => raced'[e] = raced[e]
<1>1. raced' = [raced EXCEPT
                  ![d] = @ \ Versions(diff[d].changed \cup Since(deletions, cursor[d]))]
  BY DEF ReadDeletions
<1>2. \A r \in diff[d].changed \cup Since(deletions, cursor[d]) : cursor[d] < r.version
  BY Shapes DEF ReadDeletions, FeedInv, TombstonesNewer, Since, TypeOK
<1> QED
  BY <1>1, <1>2 DEF Versions, FeedInv, TypeOK

\* The heart of it: on a file it has not missed a change of, a report makes the
\* view what the account has.
LEMMA ReportIsExact ==
  ASSUME FeedInv, RaceInv, NEW d \in Device, ReadDeletions(d)
  PROVE  /\ \A f \in files : f.id \in view'[d] \/ f.version \in raced'[d]
         /\ \A g \in deletions : g.id \notin view'[d] \/ g.version \in raced'[d]
         /\ view'[d] \subseteq view[d] \cup Ids(files)
         /\ view[d] \cap Ids(files) \subseteq view'[d]
<1> DEFINE deleted == Since(deletions, cursor[d])
<1>1. /\ view'[d] = (view[d] \cup Ids(diff[d].changed)) \ Ids(deleted)
      /\ diff[d] # NoDiff
  BY ReadsDeletions DEF ReadDeletions
<1>2. /\ \A f \in files, g \in deletions : f.id # g.id
      /\ \A g \in deleted : g \in deletions
  BY DEF FeedInv, OnePlace, Since
<1>3. /\ \A r \in files \cup deletions : r.version \in Nat
      /\ cursor[d] \in Nat
      /\ \A c \in diff[d].changed : c.version \in Nat /\ cursor[d] < c.version
  BY <1>1, Shapes DEF FeedInv, TypeOK, TombstonesNewer
<1>4. \A c \in diff[d].changed, g \in deletions : c.id = g.id => g \in deleted
  BY <1>1, <1>3 DEF FeedInv, TombstonesNewer, Newer, Since
<1>5. /\ \A r \in diff[d].changed \cup deleted : cursor[d] < r.version
      /\ \A v \in raced[d] : v \in raced'[d] \/ \E r \in diff[d].changed \cup deleted : r.version = v
  BY ReportNames
<1> HIDE DEF deleted
<1>6. ASSUME NEW f \in files PROVE f.id \in view'[d] \/ f.version \in raced'[d]
  <2>1. f.id \notin Ids(deleted)
    BY <1>2 DEF Ids
  <2>2. CASE f.version <= cursor[d]
    <3>1. f.id \in view[d] \/ f.version \in raced[d]
      BY <2>2 DEF RaceInv, MissedOnlyInRace
    <3>2. \A r \in diff[d].changed \cup deleted : r.version # f.version
      BY <1>3, <1>5, <2>2 DEF deleted, Since
    <3> QED
      BY <1>1, <1>5, <2>1, <3>1, <3>2
  <2>3. CASE cursor[d] < f.version
    <3>1. f \in diff[d].changed \/ f.version \in raced[d]
      BY <1>1, <2>3 DEF RaceInv, ReadOrRaced
    <3>2. CASE f \in diff[d].changed
      BY <1>1, <2>1, <3>2 DEF Ids
    <3>3. CASE f.version \in raced[d] /\ f.version \notin raced'[d]
      <4>1. PICK r \in diff[d].changed \cup deleted : r.version = f.version
        BY <1>5, <3>3
      <4>2. r \in Rows /\ f \in Rows
        BY <1>1, <1>2, <4>1 DEF Rows
      <4>3. r = f
        BY <4>1, <4>2 DEF RaceInv, DrawnOnce
      <4> QED
        BY <1>2, <3>2, <4>1, <4>3
    <3> QED
      BY <3>1, <3>2, <3>3
  <2> QED
    BY <1>3, <2>2, <2>3
<1>7. ASSUME NEW g \in deletions, g.id \in view'[d] PROVE g.version \in raced'[d]
  <2>1. g \notin deleted
    BY <1>1, <1>7 DEF Ids
  <2>2. g.version <= cursor[d]
    BY <1>3, <2>1 DEF deleted, Since
  <2>3. g.id \in view[d]
    BY <1>1, <1>4, <1>7, <2>1 DEF Ids
  <2>4. g.version \in raced[d]
    BY <2>2, <2>3 DEF RaceInv, MissedOnlyInRace
  <2>5. \A r \in diff[d].changed \cup deleted : r.version # g.version
    BY <1>3, <1>5, <2>2 DEF deleted, Since
  <2> QED
    BY <1>5, <2>4, <2>5
<1>8. view'[d] \subseteq view[d] \cup Ids(files)
  <2> SUFFICES ASSUME NEW c \in diff[d].changed, c.id \in view'[d] PROVE c.id \in Ids(files)
    BY <1>1 DEF Ids
  <2>1. \A g \in deletions : g.id # c.id
    BY <1>1, <1>4 DEF Ids
  <2>2. c.id \in Ids(files) \cup Ids(deletions)
    BY <1>1 DEF RaceInv, KnownIds, Ids
  <2> QED
    BY <2>1, <2>2 DEF Ids
<1>9. view[d] \cap Ids(files) \subseteq view'[d]
  BY <1>1, <1>2 DEF Ids
<1> QED
  BY <1>6, <1>7, <1>8, <1>9

LEMMA RaceReports ==
  ASSUME FeedInv, RaceInv, NEW d \in Device, ReadDeletions(d)
  PROVE  RaceInv'
<1>1. /\ diff'[d] = NoDiff /\ diff[d] # NoDiff
      /\ \A e \in Device : e # d => /\ diff'[e] = diff[e] /\ cursor'[e] = cursor[e]
                                   /\ view'[e] = view[e] /\ raced'[e] = raced[e]
      /\ UNCHANGED <<files, deletions, tx>>
  <2>1. /\ diff[d] # NoDiff /\ diff' = [diff EXCEPT ![d] = NoDiff]
        /\ UNCHANGED <<files, deletions, tx>>
    BY DEF ReadDeletions, EndDiff
  <2>2. diff'[d] = NoDiff /\ \A e \in Device : e # d => diff'[e] = diff[e]
    BY <2>1, DiffEnds
  <2>3. \A e \in Device : e # d => cursor'[e] = cursor[e] /\ view'[e] = view[e]
    BY ReadsDeletions
  <2>4. \A e \in Device : e # d => raced'[e] = raced[e]
    BY ReportNames
  <2> QED
    BY <2>1, <2>2, <2>3, <2>4
<1>2. Rows' \subseteq Rows
  BY <1>1 DEF Rows
<1>3. DrawnOnce'
  BY <1>1, <1>2 DEF RaceInv, DrawnOnce
<1>4. OverlapsKnown'
  <2>1. ASSUME NEW w \in Writer, tx[w] # NoTx PROVE tx[w].row.version \in raced'[d]
    <3>1. tx[w].row.version \in raced[d]
      BY <1>1, <2>1 DEF RaceInv, OverlapsKnown
    <3>2. \A r \in diff[d].changed \cup Since(deletions, cursor[d]) : r \in Rows
      BY <1>1 DEF Rows, Since
    <3>3. \A r \in Rows : r.version # tx[w].row.version
      BY <2>1 DEF RaceInv, DrawnOnce
    <3> QED
      BY <3>1, <3>2, <3>3, ReportNames
  <2> QED
    BY <1>1, <2>1 DEF RaceInv, OverlapsKnown
<1>5. ReadOrRaced'
  BY <1>1 DEF RaceInv, ReadOrRaced
<1>6. KnownIds'
  BY <1>1, ReportIsExact DEF RaceInv, KnownIds
<1>7. MissedOnlyInRace'
  BY <1>1, ReportIsExact DEF RaceInv, MissedOnlyInRace
<1> QED
  BY <1>3, <1>4, <1>5, <1>6, <1>7 DEF RaceInv

LEMMA RaceNext == FeedInv /\ RaceInv /\ [Next]_vars => RaceInv'
<1> SUFFICES ASSUME FeedInv, RaceInv, [Next]_vars PROVE RaceInv'
  OBVIOUS
<1>1. ASSUME NEW w \in Writer, BeginInsert(w) PROVE RaceInv'
  <2>1. idSeq + 1 \in Nat /\ Begin(w, "insert", idSeq + 1)
    BY <1>1 DEF BeginInsert, FeedInv, TypeOK
  <2> QED
    BY <2>1, RaceBegins
<1>2. ASSUME NEW w \in Writer, NEW f \in files, BeginDelete(w, f) PROVE RaceInv'
  <2>1. f.id \in Nat /\ Begin(w, "delete", f.id)
    BY <1>2, Shapes DEF BeginDelete, FeedInv
  <2> QED
    BY <2>1, RaceBegins
<1>3. ASSUME NEW w \in Writer, Rollback(w) PROVE RaceInv'
  <2>1. /\ \A v \in Writer : tx'[v] # NoTx => tx'[v] = tx[v]
        /\ UNCHANGED <<files, deletions, diff, cursor, view, raced>>
    BY <1>3, TxEnds DEF Rollback
  <2> QED
    BY <2>1 DEF RaceInv, Rows, DrawnOnce, OverlapsKnown, ReadOrRaced, KnownIds, MissedOnlyInRace
<1>4. ASSUME NEW d \in Device, LoseReport(d) PROVE RaceInv'
  <2>1. /\ \A e \in Device : diff'[e] # NoDiff => diff'[e] = diff[e]
        /\ UNCHANGED <<files, deletions, tx, cursor, view, raced>>
    BY <1>4, DiffEnds DEF LoseReport, EndDiff
  <2>2. Rows' \subseteq Rows
    BY <2>1 DEF Rows
  <2> QED
    BY <2>1, <2>2 DEF RaceInv, DrawnOnce, OverlapsKnown, ReadOrRaced, KnownIds, MissedOnlyInRace
<1>5. CASE UNCHANGED vars
  BY <1>5 DEF vars, RaceInv, Rows, DrawnOnce, OverlapsKnown, ReadOrRaced, KnownIds,
     MissedOnlyInRace
<1> QED
  BY <1>1, <1>2, <1>3, <1>4, <1>5, RaceCommits, RaceReads, RaceReports DEF Next

LEMMA RaceCorrect == Spec => [](FeedInv /\ RaceInv)
<1>1. Init => FeedInv /\ RaceInv
  BY FeedInit, RaceInit
<1>2. FeedInv /\ RaceInv /\ [Next]_vars => (FeedInv /\ RaceInv)'
  BY FeedNext, RaceNext
<1> QED
  BY <1>1, <1>2, PTL DEF Spec

\* The only change a device can miss is one whose transaction a diff of it
\* overlapped, for any number of writers, however they overlap each other.
THEOREM NothingElseMissed == Spec => []MissedOnlyInRace
<1>1. RaceInv => MissedOnlyInRace
  BY DEF RaceInv
<1> QED
  BY <1>1, RaceCorrect, PTL

\* The feed implements the abstract protocol with all its races: a report is a
\* refresh, a commit adds or drops one file, all else stutters.
THEOREM FeedImplements == Spec => ImplementsReplica
<1>1. Init => R!Init
  BY DEF Init, R!Init, Ids, Missed
<1>2. FeedInv /\ RaceInv /\ [Next]_vars => [R!Next]_R!vars
  <2> SUFFICES ASSUME FeedInv, RaceInv, [Next]_vars PROVE [R!Next]_R!vars
    OBVIOUS
  <2>1. ASSUME NEW w \in Writer, Commit(w) PROVE R!Next
    <3> DEFINE row == tx[w].row
    <3>1. row.id \in 1..MaxVersion /\ tx[w].kind \in {"insert", "delete"}
          /\ UNCHANGED <<view, raced>>
      BY <2>1, Shapes, VersionFeedAssumption DEF Commit, FeedInv, Behind, Tx, TypeOK
    <3>2. CASE tx[w].kind = "insert"
      <4>1. row.id \notin Ids(files) /\ Ids(files') = Ids(files) \cup {row.id}
        BY <2>1, <3>2 DEF Commit, FeedInv, OnePlace, Inserting, Ids
      <4>2. \A d \in Device : Missed(d)' \ {row.id} = Missed(d) \ {row.id}
        BY <2>1, <3>1, <3>2 DEF Commit, Missed
      <4> QED
        BY <3>1, <4>1, <4>2 DEF R!Next, R!Add, R!Change
    <3>3. CASE tx[w].kind = "delete"
      <4>1. row.id \in Ids(files) /\ Ids(files') = Ids(files) \ {row.id}
        BY <2>1, <3>3 DEF Commit, FeedInv, OnePlace, Deleting, Ids
      <4>2. \A d \in Device : Missed(d)' \ {row.id} = Missed(d) \ {row.id}
        BY <2>1, <3>1, <3>3 DEF Commit, Missed
      <4> QED
        BY <3>1, <4>1, <4>2 DEF R!Next, R!Drop, R!Change
    <3> QED
      BY <3>1, <3>2, <3>3
  <2>2. ASSUME NEW d \in Device, ReadDeletions(d) PROVE R!Next
    <3>1. UNCHANGED <<files, deletions>>
      BY <2>2 DEF ReadDeletions
    <3>2. \A e \in Device \ {d} : view'[e] = view[e] /\ Missed(e)' = Missed(e)
      BY <2>2, <3>1, ReadsDeletions, ReportNames DEF Missed
    <3>3. Missed(d)' \subseteq Missed(d)
      BY <2>2, <3>1, ReportNames DEF Missed
    <3>4. \A f \in files : f.id \in view'[d] \/ f.id \in Missed(d)'
      BY <2>2, <3>1, ReportIsExact DEF Missed
    <3>5. \A g \in deletions : g.id \notin view'[d] \/ g.id \in Missed(d)'
      BY <2>2, <3>1, ReportIsExact DEF Missed
    <3>6. view'[d] \subseteq Ids(files) \cup Ids(deletions)
      BY <2>2, ReportIsExact DEF RaceInv, KnownIds
    <3>7. view'[d] \ Missed(d)' = Ids(files) \ Missed(d)'
      BY <3>4, <3>5, <3>6 DEF Ids
    <3>8. /\ view[d] \cap Ids(files) \subseteq view'[d]
          /\ view'[d] \subseteq view[d] \cup Ids(files)
      BY <2>2, ReportIsExact
    <3>9. R!Refresh(d)
      BY <3>1, <3>2, <3>3, <3>7, <3>8 DEF R!Refresh, Ids
    <3> QED
      BY <3>9 DEF R!Next
  <2>3. ASSUME UNCHANGED <<files, deletions, view>>,
               \A d \in Device : \A r \in files \cup deletions :
                 r.version \in raced'[d] <=> r.version \in raced[d]
        PROVE  [R!Next]_R!vars
    <3>1. \A d \in Device : Missed(d)' = Missed(d)
      BY <2>3 DEF Missed
    <3> QED
      BY <2>3, <3>1 DEF R!vars, Ids
  <2>4. ASSUME NEW w \in Writer, NEW kind, NEW id, Begin(w, kind, id)
        PROVE  [R!Next]_R!vars
    <3>1. \A r \in files \cup deletions : r.version \in Nat /\ r.version <= seq
      BY Shapes DEF FeedInv, Behind
    <3>2. \A d \in Device : raced'[d] = raced[d] \/ raced'[d] = raced[d] \cup {seq + 1}
      BY <2>4 DEF Begin
    <3>3. seq \in Nat /\ UNCHANGED <<files, deletions, view>>
      BY <2>4 DEF Begin, FeedInv, TypeOK
    <3> QED
      BY <2>3, <3>1, <3>2, <3>3
  <2>5. ASSUME NEW d \in Device, ReadFiles(d) PROVE [R!Next]_R!vars
    <3>1. \A r \in files \cup deletions : r.version \notin Drawn
      BY DEF RaceInv, DrawnOnce, Rows, Drawn
    <3>2. /\ raced'[d] = raced[d] \cup Drawn
          /\ \A e \in Device : e # d => raced'[e] = raced[e]
          /\ UNCHANGED <<files, deletions, view>>
      BY <2>5 DEF ReadFiles, FeedInv, TypeOK
    <3> QED
      BY <2>3, <3>1, <3>2
  <2>6. CASE UNCHANGED <<files, deletions, view, raced>>
    BY <2>3, <2>6
  <2> QED
    BY <2>1, <2>2, <2>4, <2>5, <2>6 DEF Next, vars, BeginInsert, BeginDelete, Rollback, LoseReport
<1> QED
  BY <1>1, <1>2, RaceCorrect, PTL DEF Spec, ImplementsReplica, R!Spec

=============================================================================
