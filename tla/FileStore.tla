------------------------------ MODULE FileStore ------------------------------
(***************************************************************************)
(* FileService over its two stores: the Postgres tables behind             *)
(* PostgresFileRepo (files, file_deletions, their sequences) and the blobs *)
(* of LocalFileStorage.  Neither store knows of the other, so the promise  *)
(* "a listed file has its bytes" is kept by the order of the calls alone.  *)
(*                                                                         *)
(* A request slot runs one HTTP request at a time.  Every call that leaves *)
(* the handler (a query, a commit, a storage operation) is one step, and   *)
(* requests interleave between those calls.                                *)
(*                                                                         *)
(* Faults names what the environment may do:                               *)
(*   "cancel"     a request context ends (client gone, 60 s Timeout)       *)
(*   "dbError"    a query fails without taking effect                      *)
(*   "connLoss"   the connection drops after the database committed        *)
(*   "diskError"  removing a file from disk fails                          *)
(*   "crash"      the server process dies and restarts                     *)
(* Two readings of UnixNano are assumed to differ, so keys are fresh.      *)
(***************************************************************************)
EXTENDS Naturals, Sequences, FiniteSets

CONSTANTS
  Req,          \* slots for requests being served at the same time
  User,         \* account ids
  Stem,         \* file names without the " (n)" the service may add
  Previewable,  \* stems with an extension Content serves
  Content,      \* file contents; a content stands for its own SHA-256 too
  MaxDedup,     \* maxNameDedupAttempts
  MaxUploads,   \* bound: uploads started in one behaviour
  MaxVersions,  \* bound: no delete starts once this many versions are drawn
  Faults

ASSUME FileStoreAssumption ==
  /\ MaxDedup \in Nat
  /\ MaxUploads \in Nat /\ MaxVersions \in Nat
  /\ Previewable \subseteq Stem

\* "report (1) (2).pdf" is [stem |-> report, suffix |-> <<1, 2>>].
Name == [stem: Stem, suffix: Seq(Nat)]

\* Names clients send; one of them looks like a renamed file.
Filename == [stem: Stem, suffix: {<<>>, <<1>>}]

dedupedName(base, n) == [stem |-> base.stem, suffix |-> Append(base.suffix, n)]

\* The name the insert loop offers on its attempt-th round.
Candidate(base, attempt) ==
  IF attempt = 1 THEN base ELSE dedupedName(base, attempt - 1)

Key == [owner: User, time: Nat, base: Name]

File == [id: Nat, owner: User, name: Name, key: Key, sha: Content, version: Nat]

Deletion == [id: Nat, owner: User, name: Name, key: Key, version: Nat]

VARIABLES
  files,       \* table files
  deletions,   \* table file_deletions
  idSeq,       \* last value of files_id_seq
  versionSeq,  \* last value of files_version_seq
  blobs,       \* bytes on disk: Key -> Content, on the keys that exist
  clock,       \* last UnixNano used in a key
  req          \* what each slot is doing

vars == <<files, deletions, idSeq, versionSeq, blobs, clock, req>>

tables == <<files, deletions, idSeq, versionSeq>>

Idle == [pc |-> "idle"]

UploadReq == [pc: {"save", "insert", "cleanup"}, user: User, base: Name,
              content: Content, key: Key, attempt: 1..(MaxDedup + 1),
              cancelled: BOOLEAN]

\* drawn is the version the tombstone got; 0 before there is one.
FileReq == [pc: {"lock", "record", "commit", "unlink", "open"}, user: User, file: File,
            drawn: Nat, cancelled: BOOLEAN]

Init ==
  /\ files = {} /\ deletions = {}
  /\ idSeq = 0 /\ versionSeq = 0
  /\ blobs = [k \in {} |-> {}]
  /\ clock = 0
  /\ req = [r \in Req |-> Idle]

-----------------------------------------------------------------------------
(* The stores *)

Put(k, c) == [j \in DOMAIN blobs \cup {k} |-> IF j = k THEN c ELSE blobs[j]]

Remove(k) == [j \in DOMAIN blobs \ {k} |-> blobs[j]]

NameTaken(u, n) == \E f \in files : f.owner = u /\ f.name = n

GetByID(u, id) == {f \in files : f.id = id /\ f.owner = u}

\* Both sequences advance on every execution of the INSERT, failed ones too.
Insert ==
  /\ idSeq' = idSeq + 1
  /\ versionSeq' = versionSeq + 1
  /\ UNCHANGED deletions

RowFor(q) ==
  [id |-> idSeq + 1, owner |-> q.user, name |-> Candidate(q.base, q.attempt),
   key |-> q.key, sha |-> q.content, version |-> versionSeq + 1]

\* Mutants of TombstoneFor: the INSERT leaves the version out, copies it from
\* the row, or draws it from a sequence of file_deletions' own.
TombstoneUnversioned(q) ==
  [id |-> q.file.id, owner |-> q.file.owner, name |-> q.file.name, key |-> q.file.key]

TombstoneAtRow(q) ==
  [id |-> q.file.id, owner |-> q.file.owner, name |-> q.file.name, key |-> q.file.key,
   version |-> q.file.version]

TombstoneNumbered(q) ==
  [id |-> q.file.id, owner |-> q.file.owner, name |-> q.file.name, key |-> q.file.key,
   version |-> Cardinality(deletions) + 1]

TombstoneFor(q) ==
  [id |-> q.file.id, owner |-> q.file.owner, name |-> q.file.name, key |-> q.file.key,
   version |-> q.drawn]

Step(r, q) == req' = [req EXCEPT ![r] = q]

Return(r) == Step(r, Idle)

-----------------------------------------------------------------------------
(* Create: save the bytes, insert the row, clean up when the row is refused *)

\* Mutant of KeyFor: the first number that is free on disk and in no request.
FirstFreeKey(u, b) ==
  LET busy == {k.time : k \in DOMAIN blobs}
        \cup {req[p].key.time : p \in {p \in Req : req[p].pc \in {"save", "insert", "cleanup"}}}
        \cup {req[p].file.key.time : p \in {p \in Req : req[p].pc \in {"lock", "record", "commit", "unlink"}}}
  IN [owner |-> u, time |-> CHOOSE n \in 1..MaxUploads : n \notin busy, base |-> b]

KeyFor(u, b) == [owner |-> u, time |-> clock + 1, base |-> b]

StartUpload(r, u, b, c) ==
  /\ req[r] = Idle
  /\ clock < MaxUploads
  /\ clock' = clock + 1
  /\ Step(r, [pc |-> "save", user |-> u, base |-> b, content |-> c, attempt |-> 1,
              key |-> KeyFor(u, b), cancelled |-> FALSE])
  /\ UNCHANGED <<tables, blobs>>

SaveBytes(r) ==
  /\ req[r].pc = "save"
  /\ blobs' = Put(req[r].key, req[r].content)
  /\ Step(r, [req[r] EXCEPT !.pc = "insert"])
  /\ UNCHANGED <<tables, clock>>

\* Mutant of SaveFails: the error of storage.Save is ignored.
SaveErrorIgnored(r) ==
  /\ req[r].pc = "save"
  /\ Step(r, [req[r] EXCEPT !.pc = "insert"])
  /\ UNCHANGED <<tables, blobs, clock>>

\* The body breaks off or the disk refuses: only the temporary file is lost.
SaveFails(r) ==
  /\ req[r].pc = "save"
  /\ Return(r)
  /\ UNCHANGED <<tables, blobs, clock>>

InsertRow(r) ==
  LET q == req[r] IN
  /\ q.pc = "insert" /\ ~q.cancelled
  /\ ~NameTaken(q.user, Candidate(q.base, q.attempt))
  /\ files' = files \cup {RowFor(q)}
  /\ Insert
  /\ Return(r)
  /\ UNCHANGED <<blobs, clock>>

\* The row is committed, but the call reports an error: its context ended, or
\* the connection broke, before the answer was read.
InsertUnacked(r) ==
  LET q == req[r] IN
  /\ q.pc = "insert" /\ ~q.cancelled
  /\ ~NameTaken(q.user, Candidate(q.base, q.attempt))
  /\ files' = files \cup {RowFor(q)}
  /\ Insert
  /\ \E fault \in {"cancel", "connLoss"} \cap Faults :
       Step(r, [q EXCEPT !.pc = "cleanup", !.cancelled = (fault = "cancel")])
  /\ UNCHANGED <<blobs, clock>>

InsertConflict(r) ==
  LET q == req[r] IN
  /\ q.pc = "insert" /\ ~q.cancelled
  /\ NameTaken(q.user, Candidate(q.base, q.attempt))
  /\ Insert
  /\ Step(r, IF q.attempt <= MaxDedup THEN [q EXCEPT !.attempt = @ + 1]
                                      ELSE [q EXCEPT !.pc = "cleanup"])
  /\ UNCHANGED <<files, blobs, clock>>

\* Any other error.
InsertFails(r) ==
  LET q == req[r] IN
  /\ q.pc = "insert"
  /\ q.cancelled \/ "dbError" \in Faults
  /\ Step(r, [q EXCEPT !.pc = "cleanup"])
  /\ UNCHANGED <<tables, blobs, clock>>

\* Mutant of Unlink: storage.Delete is not called.
KeepBytes(k, cancelled) == UNCHANGED blobs

\* storage.Delete refuses a context that has ended; its error is only logged.
Unlink(k, cancelled) ==
  \/ ~cancelled /\ blobs' = Remove(k)
  \/ (cancelled \/ "diskError" \in Faults) /\ UNCHANGED blobs

Cleanup(r) ==
  /\ req[r].pc = "cleanup"
  /\ Unlink(req[r].key, req[r].cancelled)
  /\ Return(r)
  /\ UNCHANGED <<tables, clock>>

-----------------------------------------------------------------------------
(* Delete: read the row, lock it, draw a version for its tombstone, commit  *)
(* the swap of one for the other, remove the bytes                         *)

StartDelete(r, u, id) ==
  /\ req[r] = Idle
  /\ versionSeq < MaxVersions
  /\ \E f \in GetByID(u, id) :
       Step(r, [pc |-> "lock", user |-> u, file |-> f, drawn |-> 0, cancelled |-> FALSE])
  /\ UNCHANGED <<tables, blobs, clock>>

\* Mutant of Locked: SELECT without FOR UPDATE.
NotLocked(id) == FALSE

\* SELECT ... FOR UPDATE waits while another transaction holds the row.
Locked(id) == \E p \in Req : req[p].pc \in {"record", "commit"} /\ req[p].file.id = id

\* Mutant of LockRow: a row that is gone is waited for.
LockPresent(r) ==
  /\ req[r].pc = "lock" /\ ~req[r].cancelled
  /\ ~Locked(req[r].file.id)
  /\ GetByID(req[r].user, req[r].file.id) # {}
  /\ Step(r, [req[r] EXCEPT !.pc = "record"])
  /\ UNCHANGED <<tables, blobs, clock>>

LockRow(r) ==
  LET q == req[r] IN
  /\ q.pc = "lock" /\ ~q.cancelled
  /\ ~Locked(q.file.id)
  /\ Step(r, IF GetByID(q.user, q.file.id) # {} THEN [q EXCEPT !.pc = "record"]
                                                ELSE Idle)
  /\ UNCHANGED <<tables, blobs, clock>>

\* The column default draws the version at the INSERT.  The tombstone shows at
\* the commit, so others may draw and commit higher versions in between.
InsertTombstone(r) ==
  LET q == req[r] IN
  /\ q.pc = "record" /\ ~q.cancelled
  /\ versionSeq' = versionSeq + 1
  /\ Step(r, [q EXCEPT !.pc = "commit", !.drawn = versionSeq + 1])
  /\ UNCHANGED <<files, deletions, idSeq, blobs, clock>>

\* The DELETE and the COMMIT: the row goes and its tombstone shows.
SwapRow(q) ==
  /\ files' = {g \in files : g.id # q.file.id}
  /\ deletions' = deletions \cup {TombstoneFor(q)}
  /\ UNCHANGED <<idSeq, versionSeq>>

CommitDelete(r) ==
  LET q == req[r] IN
  /\ q.pc = "commit" /\ ~q.cancelled
  /\ SwapRow(q)
  /\ Step(r, [q EXCEPT !.pc = "unlink"])
  /\ UNCHANGED <<blobs, clock>>

CommitUnacked(r) ==
  LET q == req[r] IN
  /\ q.pc = "commit" /\ ~q.cancelled
  /\ Faults \cap {"cancel", "connLoss"} # {}
  /\ SwapRow(q)
  /\ Return(r)
  /\ UNCHANGED <<blobs, clock>>

\* The deferred Rollback releases the lock; a version drawn stays drawn.
DeleteFails(r) ==
  /\ req[r].pc \in {"lock", "record", "commit"}
  /\ req[r].cancelled \/ "dbError" \in Faults
  /\ Return(r)
  /\ UNCHANGED <<tables, blobs, clock>>

RemoveBytes(r) ==
  /\ req[r].pc = "unlink"
  /\ Unlink(req[r].file.key, req[r].cancelled)
  /\ Return(r)
  /\ UNCHANGED <<tables, clock>>

-----------------------------------------------------------------------------
(* Download and Content: read the row, then open its bytes *)

StartDownload(r, u, id) ==
  /\ req[r] = Idle
  /\ \E f \in GetByID(u, id) :
       Step(r, [pc |-> "open", user |-> u, file |-> f, drawn |-> 0, cancelled |-> FALSE])
  /\ UNCHANGED <<tables, blobs, clock>>

\* Anything but a previewable extension is refused (415) before the open.
StartContent(r, u, id) ==
  /\ \E f \in GetByID(u, id) : f.name.stem \in Previewable
  /\ StartDownload(r, u, id)

\* Success or not, nothing changes; DownloadServesItsRow says which it is.
OpenBytes(r) ==
  /\ req[r].pc = "open"
  /\ Return(r)
  /\ UNCHANGED <<tables, blobs, clock>>

-----------------------------------------------------------------------------
(* Environment *)

Cancel(r) ==
  /\ "cancel" \in Faults
  /\ req[r] # Idle /\ ~req[r].cancelled
  /\ Step(r, [req[r] EXCEPT !.cancelled = TRUE])
  /\ UNCHANGED <<tables, blobs, clock>>

\* Open transactions roll back; sequences, rows and files on disk stay.
Crash ==
  /\ "crash" \in Faults
  /\ req' = [r \in Req |-> Idle]
  /\ UNCHANGED <<tables, blobs, clock>>

Start(r) ==
  \E u \in User :
    \/ \E b \in Filename, c \in Content : StartUpload(r, u, b, c)
    \/ \E id \in 1..idSeq : StartDelete(r, u, id)
    \/ \E id \in 1..idSeq : StartDownload(r, u, id)
    \/ \E id \in 1..idSeq : StartContent(r, u, id)

Proceed(r) ==
  \/ SaveBytes(r) \/ InsertRow(r) \/ InsertConflict(r) \/ Cleanup(r)
  \/ LockRow(r) \/ InsertTombstone(r) \/ CommitDelete(r) \/ RemoveBytes(r)
  \/ OpenBytes(r)

Fail(r) ==
  \/ SaveFails(r) \/ InsertUnacked(r) \/ InsertFails(r)
  \/ CommitUnacked(r) \/ DeleteFails(r)

Serve(r) == Proceed(r) \/ Fail(r)

Next ==
  \/ \E r \in Req : Start(r) \/ Serve(r) \/ Cancel(r)
  \/ Crash

Spec == Init /\ [][Next]_vars

\* The server runs every request it accepted, without counting on faults, and
\* calls of a cancelled request return; Postgres queues row locks in arrival
\* order, so a request that keeps finding its row free gets it.
Fairness ==
  \A r \in Req :
    /\ WF_vars(Proceed(r)) /\ WF_vars(req[r] # Idle /\ req[r].cancelled /\ Serve(r))
    /\ SF_vars(LockRow(r))

FairSpec == Spec /\ Fairness

-----------------------------------------------------------------------------
(* Properties *)

TypeOK ==
  /\ files \subseteq File
  /\ deletions \subseteq Deletion
  /\ idSeq \in Nat /\ versionSeq \in Nat /\ clock \in Nat
  /\ DOMAIN blobs \subseteq Key
  /\ \A k \in DOMAIN blobs : blobs[k] \in Content
  /\ req \in [Req -> {Idle} \cup UploadReq \cup FileReq]

\* A row visible to anyone has its own bytes on disk, the ones its sha256 was
\* computed from, at every moment of every upload, delete, failure and crash:
\* Create saves before it inserts, Delete commits before it unlinks, and a
\* failed Create removes only bytes that no row names.
BytesBehindRows ==
  \A f \in files : f.key \in DOMAIN blobs /\ blobs[f.key] = f.sha

\* Two deletes of one file leave one tombstone, and a file with a tombstone is
\* never listed again: SELECT ... FOR UPDATE makes the second delete see that
\* the first has won.
OneFatePerFile ==
  /\ \A d, e \in deletions : d.id = e.id => d = e
  /\ \A d \in deletions, f \in files : d.id # f.id

\* No two files, live or deleted, ever carry one version: files and
\* file_deletions draw on one sequence, which a sync cursor relies on.
VersionsDistinct ==
  LET stamped == {<<f.id, f.version, "live">> : f \in files}
                   \cup {<<d.id, d.version, "gone">> : d \in deletions}
  IN \A s, t \in stamped : s[2] = t[2] => s = t

\* A download between its two reads either finds its file's own bytes, or the
\* file has been deleted meanwhile: it never serves another file's bytes and
\* never fails for a file that is still listed.
DownloadServesItsRow ==
  \A r \in Req : req[r].pc = "open" =>
    LET f == req[r].file IN
    IF f.key \in DOMAIN blobs THEN blobs[f.key] = f.sha ELSE f \notin files

\* Bytes on disk belong to a row or to a request still working on them, as
\* long as requests are not cut off: a refused upload and a delete both take
\* their bytes along.
NoOrphanedBytes ==
  \A k \in DOMAIN blobs :
    \/ \E f \in files : f.key = k
    \/ \E r \in Req : req[r].pc \in {"insert", "cleanup"} /\ req[r].key = k
    \/ \E r \in Req : req[r].pc = "unlink" /\ req[r].file.key = k

\* A row leaves the table only for a tombstone of the same id, owner, name and
\* key with a version above the row's own, so that a cursor that saw the row has
\* the deletion ahead of it; tombstones stay, and no row is changed in place.
\* The version need not be above all others: what was inserted between the
\* tombstone's INSERT and its COMMIT may carry a higher one (VersionFeed).
DeletionRecorded ==
  [][/\ \A f \in files \ files' : \E d \in deletions' \ deletions :
          /\ d.id = f.id /\ d.owner = f.owner /\ d.name = f.name /\ d.key = f.key
          /\ f.version < d.version
     /\ deletions \subseteq deletions'
     /\ \A g \in files' \ files, f \in files : g.id # f.id]_vars

\* Every accepted request is answered: the rename loop of Create stops, and
\* deletes waiting for one row lock do not wait on each other for ever.
RequestsReturn == \A r \in Req : req[r] # Idle ~> req[r] = Idle
=============================================================================
