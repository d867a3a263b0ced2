----------------------------- MODULE VersionFeed -----------------------------
(***************************************************************************)
(* The change feed behind POST /sync/diff.  Every insert and every delete  *)
(* of a file draws a version from one sequence, inside its transaction and *)
(* before it commits; ListChangedSince reads the two tables with two       *)
(* queries, each seeing what is committed when it runs, and hands out the  *)
(* highest version it met as the device's next cursor.                     *)
(*                                                                         *)
(* One account; a file is its id (ids are never reused), and a device's    *)
(* view is what the reports it received add up to.                         *)
(***************************************************************************)
EXTENDS Naturals, FiniteSets

CONSTANTS
  Writer,      \* connections running uploads and deletes of the account
  Device,
  MaxVersion   \* bound on the version sequence

ASSUME VersionFeedAssumption == MaxVersion \in Nat

Row == [id: Nat, version: Nat]

VARIABLES
  files,      \* committed rows of files
  deletions,  \* committed rows of file_deletions
  idSeq,
  seq,        \* files_version_seq
  tx,         \* the open transaction of each writer
  diff,       \* ListChangedSince in progress for each device
  cursor,     \* the last version each device was given
  view,       \* ids each device believes to exist
  raced       \* history: versions whose transaction was open while a diff of
              \* the device ran, and that no report has named since

vars == <<files, deletions, idSeq, seq, tx, diff, cursor, view, raced>>

NoTx == [kind |-> "none"]

Tx == [kind: {"insert", "delete"}, row: Row]

NoDiff == [pc |-> "none"]

Diff == [pc: {"deletions"}, changed: SUBSET Row]

Init ==
  /\ files = {} /\ deletions = {} /\ idSeq = 0 /\ seq = 0
  /\ tx = [w \in Writer |-> NoTx]
  /\ diff = [d \in Device |-> NoDiff]
  /\ cursor = [d \in Device |-> 0]
  /\ view = [d \in Device |-> {}]
  /\ raced = [d \in Device |-> {}]

Ids(rows) == {r.id : r \in rows}

\* Mutant of Since: off by one.
SinceNext(rows, v) == {r \in rows : r.version > v + 1}

Since(rows, v) == {r \in rows : r.version > v}

Versions(rows) == {r.version : r \in rows}

\* Versions drawn and not yet committed.
Drawn == {tx[w].row.version : w \in {w \in Writer : tx[w] # NoTx}}

-----------------------------------------------------------------------------
(* Writers *)

Begin(w, kind, id) ==
  /\ tx[w] = NoTx
  /\ seq < MaxVersion
  /\ seq' = seq + 1
  /\ tx' = [tx EXCEPT ![w] = [kind |-> kind, row |-> [id |-> id, version |-> seq']]]
  /\ raced' = [d \in Device |-> IF diff[d] = NoDiff THEN raced[d] ELSE raced[d] \cup {seq'}]
  /\ UNCHANGED <<files, deletions, diff, cursor, view>>

\* INSERT INTO files: id and version default to their sequences.
BeginInsert(w) ==
  /\ idSeq' = idSeq + 1
  /\ Begin(w, "insert", idSeq')

\* SELECT ... FOR UPDATE, then the tombstone takes a version of its own.
BeginDelete(w, f) ==
  /\ \A v \in Writer : tx[v] # NoTx => tx[v].row.id # f.id
  /\ Begin(w, "delete", f.id)
  /\ UNCHANGED idSeq

Commit(w) ==
  LET row == tx[w].row IN
  /\ tx[w] # NoTx
  /\ \/ /\ tx[w].kind = "insert"
        /\ files' = files \cup {row}
        /\ UNCHANGED deletions
     \/ /\ tx[w].kind = "delete"
        /\ files' = {f \in files : f.id # row.id}
        /\ deletions' = deletions \cup {row}
  /\ tx' = [tx EXCEPT ![w] = NoTx]
  /\ UNCHANGED <<idSeq, seq, diff, cursor, view, raced>>

\* Mutant of Rollback: the transaction stays open.
KeepAborted(w) ==
  /\ tx[w] # NoTx
  /\ tx' = [tx EXCEPT ![w].kind = "aborted"]
  /\ UNCHANGED <<files, deletions, idSeq, seq, diff, cursor, view, raced>>

\* A version drawn by a transaction that rolls back is never used.
Rollback(w) ==
  /\ tx[w] # NoTx
  /\ tx' = [tx EXCEPT ![w] = NoTx]
  /\ UNCHANGED <<files, deletions, idSeq, seq, diff, cursor, view, raced>>

-----------------------------------------------------------------------------
(* ListChangedSince *)

EndDiff(d) == diff' = [diff EXCEPT ![d] = NoDiff]

\* Mutant of ReadFiles: a device that was answered once does not ask again.
AskOnce(d) ==
  /\ diff[d] = NoDiff /\ cursor[d] = 0
  /\ diff' = [diff EXCEPT ![d] = [pc |-> "deletions", changed |-> Since(files, cursor[d])]]
  /\ raced' = [raced EXCEPT ![d] = @ \cup Drawn]
  /\ UNCHANGED <<files, deletions, idSeq, seq, tx, cursor, view>>

ReadFiles(d) ==
  /\ diff[d] = NoDiff
  /\ diff' = [diff EXCEPT ![d] = [pc |-> "deletions", changed |-> Since(files, cursor[d])]]
  /\ raced' = [raced EXCEPT ![d] = @ \cup Drawn]
  /\ UNCHANGED <<files, deletions, idSeq, seq, tx, cursor, view>>

\* v is the highest version met, or the old cursor when nothing changed.
CurrentVersion(v, since, rows) ==
  /\ since <= v
  /\ \A r \in rows : r.version <= v

\* The report arrives: changed files appear, deleted ones go, and the device
\* keeps the new cursor.
ReadDeletions(d) ==
  LET changed == diff[d].changed
      deleted == Since(deletions, cursor[d])
  IN
  /\ diff[d] # NoDiff
  /\ view' = [view EXCEPT ![d] = (@ \cup Ids(changed)) \ Ids(deleted)]
  /\ \E v \in {cursor[d]} \cup Versions(changed \cup deleted) :
       /\ CurrentVersion(v, cursor[d], changed \cup deleted)
       /\ cursor' = [cursor EXCEPT ![d] = v]
  /\ raced' = [raced EXCEPT ![d] = @ \ Versions(changed \cup deleted)]
  /\ EndDiff(d)
  /\ UNCHANGED <<files, deletions, idSeq, seq, tx>>

\* Mutant of LoseReport: what the first query found is kept although the second
\* one failed.
HalfReport(d) ==
  /\ diff[d] # NoDiff
  /\ diff' = [diff EXCEPT ![d] = NoDiff]
  /\ view' = [view EXCEPT ![d] = @ \cup Ids(diff[d].changed)]
  /\ UNCHANGED <<files, deletions, idSeq, seq, tx, cursor, raced>>

\* The request or its answer is lost: the device keeps its cursor.
LoseReport(d) ==
  /\ diff[d] # NoDiff
  /\ EndDiff(d)
  /\ UNCHANGED <<files, deletions, idSeq, seq, tx, cursor, view, raced>>

Next ==
  \/ \E w \in Writer : BeginInsert(w) \/ Commit(w) \/ Rollback(w)
  \/ \E w \in Writer, f \in files : BeginDelete(w, f)
  \/ \E d \in Device : ReadFiles(d) \/ ReadDeletions(d) \/ LoseReport(d)

Spec == Init /\ [][Next]_vars

\* Transactions end, and a device polls for ever; a report gets through if
\* the device keeps asking.
FairSpec ==
  /\ Spec
  /\ \A w \in Writer : WF_vars(Commit(w) \/ Rollback(w))
  /\ \A d \in Device : SF_vars(ReadFiles(d)) /\ SF_vars(ReadDeletions(d))

-----------------------------------------------------------------------------
(* Properties *)

TypeOK ==
  /\ files \subseteq Row /\ deletions \subseteq Row
  /\ idSeq \in Nat /\ seq \in Nat
  /\ tx \in [Writer -> {NoTx} \cup Tx]
  /\ diff \in [Device -> {NoDiff} \cup Diff]
  /\ cursor \in [Device -> Nat]
  /\ view \in [Device -> SUBSET Nat]
  /\ raced \in [Device -> SUBSET Nat]

\* "Diff returns every change since sinceVersion": once a device's cursor has
\* passed a change, the device knows of it.
NoMissedChange ==
  \A d \in Device :
    /\ \A f \in files : f.version <= cursor[d] => f.id \in view[d]
    /\ \A g \in deletions : g.version <= cursor[d] => g.id \notin view[d]

\* The one way to miss a change: its transaction was open while a diff of the
\* device ran, and that diff or a later one handed out a cursor past its
\* version without naming it.  Every other change behind a device's cursor is
\* in its view, however diffs, writes, rollbacks and lost reports interleave.
MissedOnlyInRace ==
  \A d \in Device :
    /\ \A f \in files : f.version <= cursor[d] => f.id \in view[d] \/ f.version \in raced[d]
    /\ \A g \in deletions :
         g.version <= cursor[d] => g.id \notin view[d] \/ g.version \in raced[d]

\* A cursor only moves forward, and never past a version handed out, also when
\* reads and writes overlap.
CursorAdvances ==
  [][\A d \in Device : cursor[d] <= cursor'[d] /\ cursor'[d] <= seq]_vars

\* A device never believes in a file whose deletion it was told of, whatever
\* the two queries saw: deletions are read after files and applied last.
DeletionSticks ==
  [][\A d \in Device, g \in deletions :
       g.version <= cursor[d] /\ g.id \notin view[d] => g.id \notin view'[d]]_vars

\* Every upload is eventually seen by every device, unless it is deleted first
\* or the device's cursor passed it in a race.
UploadsArrive ==
  \A id \in 1..MaxVersion, d \in Device :
    id \in Ids(files) ~>
      \/ id \in view[d] \/ id \in Ids(deletions)
      \/ \E f \in files : f.id = id /\ f.version <= cursor[d] /\ f.version \in raced[d]

\* A report brings the device exactly up to date on every file, save those whose
\* last change was being written while the device asked and has not been
\* named since; and also there it only moves the view towards the account's
\* present state: it takes no live file away and brings no deleted one back.
Missed(d) == {r.id : r \in {r \in files \cup deletions : r.version \in raced[d]}}

R == INSTANCE Replica WITH live <- Ids(files), missed <- [d \in Device |-> Missed(d)],
                           File <- 1..MaxVersion

ImplementsReplica == R!Spec
=============================================================================
