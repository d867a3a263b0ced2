--------------------------- MODULE SyncClientProofs ---------------------------
(* Sync of the desktop client, for any number of callers, names and contents. *)
EXTENDS SyncClient, SyncServerProofs

Action == [name: Name, version: Nat, action: {"download", "conflict"}]

Stage == {"idle", "list", "diff", "reply", "act", "fetched", "uploads", "replace", "upload",
          "uploaded", "removals"}

Reported == {"reply", "act", "fetched"}

Applied == {"uploads", "replace", "upload", "uploaded", "removals"}

\* reconcile() returns at once while another call of it is under way.
SingleFlight ==
  /\ \A t \in Trigger : run[t].pc # "idle" => isSyncing
  /\ \A t, u \in Trigger : run[t].pc # "idle" /\ run[u].pc # "idle" => t = u

\* The cursor is a version of the server's and does not go back, except to the
\* saved one.
CursorInv ==
  /\ saved.cursor <= cursor /\ cursor <= clock
  /\ \A t \in Trigger :
       run[t].pc \in Reported => cursor <= run[t].newVersion /\ run[t].newVersion <= clock

Copying == {"copyUpload", "copyDone", "copyFetch", "copyFetched"}

\* Only people's own names get conflict copies.
CopyInv == \A n \in Name : resolve[n].pc \in Copying => n \in PlainName

\* What was fetched is, or was, on the server, and is what the next action asks for.
FetchInv ==
  /\ \A n \in Name : resolve[n].pc \in {"fetched", "copyFetched"} => Kept(rows, gone, resolve[n].id)
  /\ \A t \in Trigger : run[t].pc = "fetched" =>
       /\ run[t].changed # {} /\ NextAction(t).action = "download"
       /\ run[t].id = run[t].remote[NextAction(t).name] /\ run[t].id # 0 /\ Kept(rows, gone, run[t].id)

\* What a run still has to upload was found by the scan and is neither deleted
\* nor in conflict; what it still has to remove was not found.
ToSend(r) == {n \in Name : r.scan[n] # NoFile} \ (r.deleted \cup r.conflicted)

Missing(r) ==
  {n \in Name : r.scan[n] = NoFile} \ (r.unreadable \cup r.conflicted \cup r.downloaded)

Sending == {"replace", "upload", "uploaded"}

Planned(r) ==
  /\ r.pc \in {"uploads"} \cup Sending => r.left \subseteq ToSend(r)
  /\ r.pc \in Sending => r.name \in ToSend(r)
  /\ r.pc = "removals" => r.left \subseteq Missing(r)

PlanInv == \A t \in Trigger : Planned(run[t])

Basics == TypeOK /\ PlanInv /\ CopyInv /\ FetchInv /\ ServerInv /\ SingleFlight /\ CursorInv

-----------------------------------------------------------------------------
(* Shapes *)

LEMMA Shapes ==
  /\ NoManifest \in Manifest /\ IdleRun \in Run /\ IdleResolve \in Resolve
  /\ IdleRun.pc = "idle" /\ IdleRun.downloaded = {} /\ IdleResolve.pc = "idle"
  /\ Unknown \in Entry
  /\ (CHOOSE n \in Name : TRUE) \in Name
<1>1. (CHOOSE n \in Name : TRUE) \in Name
  BY SyncDiffAssumption
<1> DEFINE some == CHOOSE n \in Name : TRUE
<1>2. IdleRun = [pc |-> "idle", scan |-> NoManifest, unreadable |-> {},
                 remote |-> [n \in Name |-> 0], changed |-> {}, deleted |-> {}, newVersion |-> 0,
                 conflicted |-> {}, downloaded |-> {}, left |-> {}, name |-> some, id |-> 0]
  BY DEF IdleRun
<1>3. IdleResolve = [pc |-> "idle", id |-> 0, created |-> 0]
  BY DEF IdleResolve
<1> HIDE DEF some
<1>4. some \in Name
  BY <1>1 DEF some
<1>5. NoManifest \in Manifest
  BY DEF NoManifest, Manifest
<1>6. IdleRun \in Run /\ IdleRun.pc = "idle" /\ IdleRun.downloaded = {}
  BY <1>2, <1>4, <1>5 DEF Run
<1> QED
  BY <1>1, <1>3, <1>4, <1>5, <1>6 DEF Resolve, Unknown, Entry

\* The next action of a report is one of its actions.
LEMMA NextOfReport ==
  ASSUME TypeOK, NEW t \in Trigger, run[t].changed # {}
  PROVE  /\ NextAction(t) \in run[t].changed /\ NextAction(t) \in Action
         /\ Remaining(t) \in SUBSET Action
<1>1. run[t].changed \in SUBSET Action
  BY DEF TypeOK, Run, Action
<1>2. NextAction(t) \in run[t].changed
  BY <1>1, FirstAction DEF NextAction, Action
<1> QED
  BY <1>1, <1>2 DEF Remaining

-----------------------------------------------------------------------------
(* Types *)

LEMMA BegunRun ==
  ASSUME TypeOK, NEW U \in SUBSET Name
  PROVE  LET r == [IdleRun EXCEPT !.pc = "list", !.unreadable = U, !.scan = Scan(U)]
         IN  /\ r \in Run /\ r.pc = "list" /\ r.downloaded = {}
             /\ r.scan = Scan(U) /\ r.unreadable = U
<1>1. Scan(U) \in Manifest
  BY DEF Scan, Manifest, TypeOK
<1> QED
  BY <1>1, Shapes DEF Run

\* The record of a caller stays a run's.
LEMMA RunSteps ==
  ASSUME TypeOK, ServerInv, CursorInv, FetchInv, NEW t \in Trigger, Reconcile(t) \/ RunFails(t)
  PROVE  \E r \in Run : Step(t, r)
<1> DEFINE q == run[t]
<1>1. /\ q \in Run /\ q.pc \in Stage /\ q.changed \in SUBSET Action
      /\ q.conflicted \in SUBSET Name /\ q.downloaded \in SUBSET Name /\ q.left \in SUBSET Name
      /\ q.name \in Name /\ q.scan \in Manifest /\ q.deleted \in SUBSET Name /\ q.id \in Nat
  BY DEF TypeOK, Run, Stage, Action
<1>2. Step(t, IdleRun) => \E r \in Run : Step(t, r)
  BY Shapes
<1>3. ASSUME NEW pc \in Stage, Go(t, pc) PROVE \E r \in Run : Step(t, r)
  BY <1>1, <1>3 DEF Go, Run, Stage
<1>4. CASE Begin(t)
  <2>1. PICK U \in SUBSET Name :
          Step(t, [IdleRun EXCEPT !.pc = "list", !.unreadable = U, !.scan = Scan(U)])
    BY <1>4 DEF Begin
  <2> QED
    BY <2>1, BegunRun
<1>5. CASE List(t)
  <2> DEFINE R == [n \in Name |-> IdOf(rows, n)]
  <2>1. R \in [Name -> Nat] /\ "diff" \in Stage
    BY Ids DEF TypeOK, ServerTypeOK, Stage
  <2>2. Step(t, [q EXCEPT !.pc = "diff", !.remote = R])
    BY <1>5 DEF List
  <2> HIDE DEF q, R
  <2>3. [q EXCEPT !.pc = "diff", !.remote = R] \in Run
    BY <1>1, <2>1 DEF Run, Stage, Action
  <2> QED
    BY <2>2, <2>3
<1>6. CASE Diff(t)
  <2> DEFINE C == ChangeActions(rows, cursor, q.scan)
             D == DeleteActions(gone, cursor)
             V == NewVersion(rows, gone, cursor)
  <2>1. C \in SUBSET Action /\ D \in SUBSET Name /\ V \in Nat /\ "reply" \in Stage
    BY <1>1, Report DEF TypeOK, CursorInv, Stage, Action
  <2>2. Step(t, [q EXCEPT !.pc = "reply", !.changed = C, !.deleted = D, !.newVersion = V])
    BY <1>6 DEF Diff
  <2> HIDE DEF q, C, D, V
  <2>3. [q EXCEPT !.pc = "reply", !.changed = C, !.deleted = D, !.newVersion = V] \in Run
    BY <1>1, <2>1 DEF Run, Stage, Action
  <2> QED
    BY <2>2, <2>3
<1>7. CASE Reply(t)
  <2>1. OpenConflicts \in SUBSET Name /\ "act" \in Stage
    BY DEF OpenConflicts, Stage
  <2>2. Step(t, [q EXCEPT !.pc = "act", !.conflicted = OpenConflicts])
    BY <1>7 DEF Reply
  <2> HIDE DEF q
  <2>3. [q EXCEPT !.pc = "act", !.conflicted = OpenConflicts] \in Run
    BY <1>1, <2>1 DEF Run, Stage, Action
  <2> QED
    BY <2>2, <2>3
<1>8. CASE Downloaded(t) \/ PassOver(t) \/ RecordConflict(t)
  <2> DEFINE a == NextAction(t)  rest == Remaining(t)
  <2>1. run[t].changed # {}
    BY <1>8 DEF Downloaded, PassOver, RecordConflict, Acting, FetchInv
  <2>2. rest \in SUBSET Action /\ a.name \in Name
    BY <2>1, NextOfReport DEF Action
  <2>3. \/ Step(t, [q EXCEPT !.pc = "act", !.changed = rest,
                             !.downloaded = q.downloaded \cup {a.name}])
        \/ Step(t, [q EXCEPT !.changed = rest, !.conflicted = q.conflicted \cup {a.name}])
        \/ Step(t, [q EXCEPT !.changed = rest])
    BY <1>8 DEF Downloaded, PassOver, RecordConflict
  <2> HIDE DEF q, a, rest
  <2>4. q.downloaded \cup {a.name} \in SUBSET Name /\ q.conflicted \cup {a.name} \in SUBSET Name
    BY <1>1, <2>2
  <2>5. /\ [q EXCEPT !.pc = "act", !.changed = rest,
                     !.downloaded = q.downloaded \cup {a.name}] \in Run
        /\ [q EXCEPT !.changed = rest, !.conflicted = q.conflicted \cup {a.name}] \in Run
        /\ [q EXCEPT !.changed = rest] \in Run
    BY <1>1, <2>2, <2>4 DEF Run, Stage, Action
  <2> QED
    BY <2>3, <2>5
<1>fetch. CASE Download(t)
  <2> DEFINE id == q.remote[NextAction(t).name]
  <2>1. run[t].changed # {} /\ q.remote \in [Name -> Nat]
    BY <1>fetch DEF Download, Acting, TypeOK, Run
  <2>2. NextAction(t).name \in Name
    BY <2>1, NextOfReport DEF Action
  <2>3. id \in Nat
    BY <2>1, <2>2
  <2>4. Step(t, [q EXCEPT !.pc = "fetched", !.id = id]) \/ Step(t, IdleRun)
    BY <1>fetch DEF Download, EndRun
  <2> HIDE DEF q, id
  <2>5. [q EXCEPT !.pc = "fetched", !.id = id] \in Run
    BY <1>1, <2>3 DEF Run, Stage, Action
  <2> QED
    BY <1>2, <2>4, <2>5
<1>9. CASE ApplyDeletions(t) \/ EndUploads(t)
  <2>1. /\ ToUpload(t) \in SUBSET Name /\ RemovedLocally(t) \in SUBSET Name
        /\ "uploads" \in Stage /\ "removals" \in Stage
    BY DEF ToUpload, RemovedLocally, Stage
  <2>2. \/ Step(t, [q EXCEPT !.pc = "uploads", !.left = ToUpload(t)])
        \/ Step(t, [q EXCEPT !.pc = "removals", !.left = RemovedLocally(t)])
    BY <1>9 DEF ApplyDeletions, EndUploads
  <2> HIDE DEF q
  <2>3. /\ [q EXCEPT !.pc = "uploads", !.left = ToUpload(t)] \in Run
        /\ [q EXCEPT !.pc = "removals", !.left = RemovedLocally(t)] \in Run
    BY <1>1, <2>1 DEF Run, Stage, Action
  <2> QED
    BY <2>2, <2>3
<1>10. CASE UploadNext(t)
  <2>1. PICK n \in q.left, pc \in {"replace", "upload"} :
          Step(t, [q EXCEPT !.pc = pc, !.left = q.left \ {n}, !.name = n])
    BY <1>10 DEF UploadNext
  <2> DEFINE L == q.left \ {n}
  <2>2. n \in Name /\ L \in SUBSET Name /\ pc \in Stage
    BY <1>1, <2>1 DEF Stage
  <2> HIDE DEF q, L
  <2>3. [q EXCEPT !.pc = pc, !.left = L, !.name = n] \in Run
    BY <1>1, <2>2 DEF Run, Stage, Action
  <2> QED
    BY <2>1, <2>3 DEF q, L
<1>11. CASE Replace(t) \/ Uploaded(t)
  BY <1>3, <1>11 DEF Replace, Uploaded, Stage
<1>12. CASE Upload(t)
  <2>1. clock + 1 \in Nat /\ "uploaded" \in Stage
    BY DEF TypeOK, ServerTypeOK, Stage
  <2>2. Step(t, [q EXCEPT !.pc = "uploaded", !.id = clock + 1])
    BY <1>12 DEF Upload
  <2> HIDE DEF q
  <2>3. [q EXCEPT !.pc = "uploaded", !.id = clock + 1] \in Run
    BY <1>1, <2>1 DEF Run, Stage, Action
  <2> QED
    BY <2>2, <2>3
<1>13. CASE RemoveRemote(t)
  <2>1. PICK n \in q.left : Step(t, [q EXCEPT !.left = q.left \ {n}])
    BY <1>13 DEF RemoveRemote
  <2>2. q.left \ {n} \in SUBSET Name
    BY <1>1
  <2> HIDE DEF q
  <2>3. [q EXCEPT !.left = q.left \ {n}] \in Run
    BY <1>1, <2>2 DEF Run, Stage, Action
  <2> QED
    BY <2>1, <2>3
<1>14. CASE UploadThrows(t) \/ Finish(t) \/ RunFails(t)
  BY <1>2, <1>14 DEF UploadThrows, Finish, RunFails, EndRun
<1> QED
  BY <1>4, <1>5, <1>6, <1>7, <1>8, <1>9, <1>10, <1>11, <1>12, <1>13, <1>14, <1>fetch
  DEF Reconcile

\* Whatever happens, the server sees at most one call.
LEMMA NextServed == TypeOK /\ CopyInv /\ Next => Served
<1> SUFFICES ASSUME TypeOK, CopyInv, Next PROVE Served
  OBVIOUS
<1>1. /\ \A n \in Name : entries[n].id \in Nat
      /\ \A n \in Name : disk[n] # NoFile => disk[n] \in Content
      /\ \A n \in Name : IdOf(rows, n) \in Nat
  BY DEF TypeOK, ServerTypeOK, Entry, Unknown, Manifest, Row, IdOf, Live
<1>2. \A n \in Name : resolve[n].id \in Nat
  BY DEF TypeOK, Resolve
<1>3. ASSUME NEW id \in Nat, TryDelete(id) PROVE Served
  BY <1>3 DEF TryDelete, Served
<1>4. ASSUME NEW t \in Trigger, Replace(t) \/ Upload(t) \/ RemoveRemote(t) PROVE Served
  <2>1. run[t].name \in Name /\ run[t].left \subseteq Name
    BY DEF TypeOK, Run
  <2>2. CASE Replace(t)
    BY <1>1, <1>3, <2>1, <2>2 DEF Replace
  <2>3. CASE Upload(t)
    BY <1>1, <2>1, <2>3 DEF Upload, Served
  <2>4. CASE RemoveRemote(t)
    BY <1>1, <1>3, <2>1, <2>4 DEF RemoveRemote, Served
  <2> QED
    BY <1>4, <2>2, <2>3, <2>4
<1>5. ASSUME NEW t \in Trigger, Reconcile(t) \/ RunFails(t), ~Replace(t), ~Upload(t),
             ~RemoveRemote(t)
      PROVE  UNCHANGED server
  BY <1>5 DEF Reconcile, RunFails, Begin, List, Diff, Reply, Download, Downloaded, PassOver,
     RecordConflict, ApplyDeletions, UploadNext, UploadThrows, Uploaded, EndUploads, Finish
<1>6. ASSUME NEW n \in Name, Resolution(n) PROVE Served
  <2>1. CASE KeepLocalDelete(n)
    BY <1>2, <1>3, <2>1 DEF KeepLocalDelete
  <2>2. CASE KeepLocalUpload(n)
    BY <1>1, <2>2 DEF KeepLocalUpload, Served
  <2>3. CASE KeepBothUpload(n)
    <3>1. CopyName[n] \in Name
      BY <2>3, SyncClientAssumption DEF KeepBothUpload, Resolving, CopyInv, Copying, PlainName
    <3> QED
      BY <1>1, <2>3, <3>1 DEF KeepBothUpload, Served
  <2>4. CASE KeepLocalDone(n) \/ FetchRemote(n) \/ AdoptRemote(n) \/ KeepBothDone(n)
             \/ ResolveFails(n)
    BY <2>4 DEF KeepLocalDone, FetchRemote, AdoptRemote, KeepBothDone, ResolveFails, Served
  <2> QED
    BY <1>6, <2>1, <2>2, <2>3, <2>4 DEF Resolution
<1>7. CASE Restart
  BY <1>7 DEF Restart, Served
<1>8. ASSUME NEW n \in Name, World(n) PROVE Served
  BY <1>1, <1>8 DEF World, UserWrite, UserRemove, DevicePut, DeviceDrop, KeepLocal, KeepRemote,
     KeepBoth, KeepBothRefused, Served
<1> QED
  BY <1>4, <1>5, <1>6, <1>7, <1>8 DEF Next, Served

\* All of the state but the server and the runs.
RestOK ==
  /\ disk \in Manifest
  /\ cursor \in Nat /\ entries \in [Name -> Entry]
  /\ conflicts \in [Name -> Nat]
  /\ saved \in [cursor: Nat, entries: [Name -> Entry]]
  /\ isSyncing \in BOOLEAN /\ resolve \in [Name -> Resolve]
  /\ touched \subseteq Name /\ stuck \subseteq Name /\ beside \subseteq Name
  /\ obeyed \subseteq Name /\ pending \subseteq Name /\ moves \in Nat

LEMMA WorkedNames ==
  (\A n, pc : WorkedOn(n, pc) \subseteq Name) /\ InResolution \subseteq Name
BY DEF WorkedOn, InResolution

LEMMA ReconcileRest ==
  ASSUME TypeOK, ServerInv, PlanInv, CopyInv, FetchInv, NEW t \in Trigger,
         Reconcile(t) \/ RunFails(t)
  PROVE  RestOK'
<1> DEFINE q == run[t]
<1>1. RestOK /\ clock \in Nat
  BY DEF TypeOK, RestOK, ServerTypeOK
<1>2. /\ q \in Run /\ q.changed \in SUBSET Action /\ q.left \in SUBSET Name
      /\ q.name \in Name /\ q.scan \in Manifest /\ q.id \in Nat
      /\ q.remote \in [Name -> Nat] /\ q.newVersion \in Nat
  BY DEF TypeOK, Run, Action
<1>3. CASE Begin(t)
  BY <1>1, <1>3, WorkedNames DEF Begin, RestOK, Move, server, state
<1>4. CASE List(t) \/ Diff(t) \/ Reply(t) \/ PassOver(t) \/ UploadNext(t) \/ EndUploads(t)
  BY <1>1, <1>4 DEF List, Diff, Reply, PassOver, UploadNext, EndUploads, RestOK, state, watch, marks
<1>5. CASE Downloaded(t)
  <2> DEFINE a == NextAction(t)  c == ContentOf(q.id)  e == [id |-> q.id, content |-> c]
  <2>1. a.name \in Name
    BY <1>5, NextOfReport DEF Downloaded, FetchInv, Action
  <2>2. c \in Content
    BY <1>5, FetchedContent DEF Downloaded, FetchInv, TypeOK
  <2>3. e \in Entry
    BY <1>2, <2>2 DEF Entry
  <2>4. /\ disk' = [disk EXCEPT ![a.name] = c] /\ entries' = [entries EXCEPT ![a.name] = e]
        /\ touched' = touched \ {a.name} /\ stuck' = stuck \ {a.name} /\ beside' \subseteq beside
        /\ UNCHANGED <<isSyncing, cursor, conflicts, saved, resolve, obeyed, pending, moves>>
    BY <1>5 DEF Downloaded, SyncedByRun, SyncedNow
  <2> HIDE DEF a, c, e
  <2> QED
    BY <1>1, <2>1, <2>2, <2>3, <2>4 DEF RestOK, Manifest
<1>fetch. CASE Download(t)
  BY <1>1, <1>fetch DEF Download, EndRun, RestOK, state, watch, marks
<1>6. CASE RecordConflict(t)
  <2>1. NextAction(t).name \in Name
    BY <1>6, NextOfReport DEF RecordConflict, Acting, Action
  <2>2. q.remote[NextAction(t).name] \in Nat /\ entries[NextAction(t).name].id \in Nat
    BY <1>1, <1>2, <2>1 DEF RestOK, Entry, Unknown
  <2> QED
    BY <1>1, <1>6, <2>1, <2>2 DEF RecordConflict, RestOK, state, marks
<1>7. CASE ApplyDeletions(t)
  <2>1. q.deleted \in SUBSET Name
    BY DEF TypeOK, Run
  <2>2. /\ disk' \in Manifest /\ moves' \in Nat
        /\ touched' \subseteq Name /\ stuck' \subseteq Name /\ obeyed' \subseteq Name
    BY <1>1, <1>7, <2>1 DEF ApplyDeletions, RestOK, Move, Manifest
  <2>3. entries' \in [Name -> Entry] /\ cursor' \in Nat
    BY <1>1, <1>2, <1>7 DEF ApplyDeletions, RestOK, Entry
  <2> QED
    BY <1>1, <1>7, <2>2, <2>3 DEF ApplyDeletions, RestOK
<1>8. CASE Replace(t)
  BY <1>1, <1>8 DEF Replace, TryDelete, Move, RestOK, state, marks
<1>9. CASE Upload(t)
  BY <1>1, <1>9 DEF Upload, SyncedByRun, SyncedNow, RestOK, state
<1>10. CASE Uploaded(t)
  <2> DEFINE e == [id |-> q.id, content |-> q.scan[q.name]]
  <2>1. entries' = [entries EXCEPT ![q.name] = e]
    BY <1>10 DEF Uploaded
  <2>2. e \in Entry
    BY <1>2, <1>10 DEF Uploaded, PlanInv, Planned, Sending, ToSend, Entry, Manifest
  <2> HIDE DEF e
  <2> QED
    BY <1>1, <1>2, <1>10, <2>1, <2>2 DEF Uploaded, RestOK, watch, marks
<1>11. CASE RemoveRemote(t)
  BY <1>1, <1>2, <1>11 DEF RemoveRemote, TryDelete, Move, RestOK, Entry, marks
<1>12. CASE Finish(t)
  BY <1>1, <1>12 DEF Finish, EndRun, RestOK, state, watch, marks
<1>13. CASE UploadThrows(t)
  BY <1>1, <1>13 DEF UploadThrows, EndRun, RestOK, state, watch, marks
<1>14. CASE RunFails(t)
  <2>1. UNCHANGED <<disk, cursor, entries, conflicts, saved, resolve, touched, stuck, beside,
                    obeyed, pending>>
        /\ isSyncing' = FALSE /\ moves' = moves + 1
    BY <1>14 DEF RunFails, EndRun, Move, state, marks
  <2>2. moves' \in Nat
    BY <1>1, <2>1 DEF RestOK
  <2>3. isSyncing' \in BOOLEAN
    BY <2>1, Zenon
  <2> QED
    BY <1>1, <2>1, <2>2, <2>3 DEF RestOK
<1> QED
  BY <1>3, <1>4, <1>5, <1>6, <1>7, <1>8, <1>9, <1>10, <1>11, <1>12, <1>13, <1>14, <1>fetch
  DEF Reconcile

ResolveStage == {"idle", "localDelete", "localUpload", "localDone", "fetch", "fetched",
                 "copyUpload", "copyDone", "copyFetch", "copyFetched"}

\* What a step leaves in the record of a resolution.
LEMMA ResolveSteps ==
  ASSUME resolve \in [Name -> Resolve], NEW n \in Name
  PROVE  /\ \A m \in Name : resolve[m] \in Resolve /\ resolve[m].id \in Nat
                            /\ resolve[m].created \in Nat
         /\ \A pc \in ResolveStage : GoResolve(n, pc) =>
              /\ resolve' \in [Name -> Resolve] /\ resolve'[n].pc = pc
              /\ resolve'[n].id = resolve[n].id /\ resolve'[n].created = resolve[n].created
              /\ \A m \in Name \ {n} : resolve'[m] = resolve[m]
         /\ \A pc \in ResolveStage, k \in Nat :
              resolve' = [resolve EXCEPT ![n] = [@ EXCEPT !.pc = pc, !.created = k]] =>
              /\ resolve' \in [Name -> Resolve] /\ resolve'[n].pc = pc
              /\ resolve'[n].id = resolve[n].id /\ resolve'[n].created = k
              /\ \A m \in Name \ {n} : resolve'[m] = resolve[m]
         /\ EndResolve(n) =>
              /\ resolve' \in [Name -> Resolve] /\ resolve'[n] = IdleResolve
              /\ resolve'[n].pc = "idle"
              /\ \A m \in Name \ {n} : resolve'[m] = resolve[m]
<1>1. \A m \in Name : resolve[m] \in Resolve /\ resolve[m].id \in Nat /\ resolve[m].created \in Nat
  BY DEF Resolve
<1>2. ASSUME NEW r \in Resolve, resolve' = [resolve EXCEPT ![n] = r]
      PROVE  resolve' \in [Name -> Resolve] /\ resolve'[n] = r
             /\ \A m \in Name \ {n} : resolve'[m] = resolve[m]
  BY <1>2
<1>3. ASSUME NEW q \in Resolve, NEW pc \in ResolveStage, NEW k \in Nat
      PROVE  /\ [q EXCEPT !.pc = pc] \in Resolve /\ [q EXCEPT !.pc = pc].pc = pc
             /\ [q EXCEPT !.pc = pc].id = q.id /\ [q EXCEPT !.pc = pc].created = q.created
             /\ [q EXCEPT !.pc = pc, !.created = k] \in Resolve
             /\ [q EXCEPT !.pc = pc, !.created = k].pc = pc
             /\ [q EXCEPT !.pc = pc, !.created = k].id = q.id
             /\ [q EXCEPT !.pc = pc, !.created = k].created = k
  BY DEF Resolve, ResolveStage
<1>4. ASSUME NEW pc \in ResolveStage, GoResolve(n, pc)
      PROVE  /\ resolve' \in [Name -> Resolve] /\ resolve'[n].pc = pc
             /\ resolve'[n].id = resolve[n].id /\ resolve'[n].created = resolve[n].created
             /\ \A m \in Name \ {n} : resolve'[m] = resolve[m]
  <2> DEFINE r == [resolve[n] EXCEPT !.pc = pc]
  <2>1. resolve' = [resolve EXCEPT ![n] = r]
    BY <1>4 DEF GoResolve
  <2>2. r \in Resolve /\ r.pc = pc /\ r.id = resolve[n].id /\ r.created = resolve[n].created
    BY <1>1, <1>3
  <2> HIDE DEF r
  <2> QED
    BY <1>2, <2>1, <2>2
<1>5. ASSUME NEW pc \in ResolveStage, NEW k \in Nat,
             resolve' = [resolve EXCEPT ![n] = [@ EXCEPT !.pc = pc, !.created = k]]
      PROVE  /\ resolve' \in [Name -> Resolve] /\ resolve'[n].pc = pc
             /\ resolve'[n].id = resolve[n].id /\ resolve'[n].created = k
             /\ \A m \in Name \ {n} : resolve'[m] = resolve[m]
  <2>0. PICK q \in Resolve : q = resolve[n]
    BY <1>1
  <2> DEFINE r == [q EXCEPT !.pc = pc, !.created = k]
  <2>1. resolve' = [resolve EXCEPT ![n] = r]
    BY <1>5, <2>0
  <2>2. r \in Resolve /\ r.pc = pc /\ r.id = resolve[n].id /\ r.created = k
    BY <2>0 DEF Resolve, ResolveStage
  <2> HIDE DEF r
  <2> QED
    BY <1>2, <2>1, <2>2
<1>6. EndResolve(n) =>
        /\ resolve' \in [Name -> Resolve] /\ resolve'[n] = IdleResolve /\ resolve'[n].pc = "idle"
        /\ \A m \in Name \ {n} : resolve'[m] = resolve[m]
  BY <1>2, Shapes DEF EndResolve
<1> QED
  BY <1>1, <1>4, <1>5, <1>6

LEMMA Copies == \A n \in PlainName : n \in Name /\ CopyName[n] \in Name /\ CopyName[n] # n
BY SyncClientAssumption DEF PlainName

LEMMA ResolutionRest ==
  ASSUME TypeOK, ServerInv, CopyInv, FetchInv, NEW n \in Name, Resolution(n)
  PROVE  RestOK' /\ CopyInv' /\ UNCHANGED run
<1>1. RestOK /\ clock + 1 \in Nat /\ resolve \in [Name -> Resolve]
  BY DEF TypeOK, RestOK, ServerTypeOK
<1>2. resolve[n] \in Resolve /\ resolve[n].id \in Nat /\ resolve[n].created \in Nat
  BY <1>1, ResolveSteps
<1>3. resolve[n].pc \in Copying => n \in PlainName /\ CopyName[n] \in Name
  BY Copies DEF CopyInv
<1>4. ASSUME NEW pc \in ResolveStage, GoResolve(n, pc), pc \in Copying => n \in PlainName
      PROVE  resolve' \in [Name -> Resolve] /\ CopyInv'
  <2>1. /\ resolve' \in [Name -> Resolve] /\ resolve'[n].pc = pc
        /\ \A m \in Name \ {n} : resolve'[m] = resolve[m]
    BY <1>1, <1>4, ResolveSteps
  <2> QED
    BY <1>4, <2>1 DEF CopyInv
<1>5. ASSUME NEW pc \in ResolveStage, pc \in Copying => n \in PlainName,
             resolve' = [resolve EXCEPT ![n] = [@ EXCEPT !.pc = pc, !.created = clock + 1]]
      PROVE  resolve' \in [Name -> Resolve] /\ CopyInv'
  <2>1. /\ resolve' \in [Name -> Resolve] /\ resolve'[n].pc = pc
        /\ \A m \in Name \ {n} : resolve'[m] = resolve[m]
    BY <1>1, <1>5, ResolveSteps
  <2> QED
    BY <1>5, <2>1 DEF CopyInv
<1>6. EndResolve(n) => resolve' \in [Name -> Resolve] /\ CopyInv'
  <2> SUFFICES ASSUME EndResolve(n) PROVE resolve' \in [Name -> Resolve] /\ CopyInv'
    OBVIOUS
  <2>1. /\ resolve' \in [Name -> Resolve] /\ resolve'[n].pc = "idle"
        /\ \A m \in Name \ {n} : resolve'[m] = resolve[m]
    BY <1>1, ResolveSteps
  <2> QED
    BY <2>1 DEF CopyInv, Copying
<1>7. ASSUME NEW m \in Name, NEW e \in Entry, entries' = [entries EXCEPT ![m] = e],
             Settle(n), UNCHANGED cursor
      PROVE  /\ CopyInv' /\ entries' \in [Name -> Entry]
             /\ conflicts' \in [Name -> Nat] /\ pending' \subseteq Name
             /\ resolve' \in [Name -> Resolve]
             /\ saved' \in [cursor: Nat, entries: [Name -> Entry]]
  BY <1>1, <1>6, <1>7 DEF Settle, RestOK
<1>8. CASE KeepLocalDelete(n)
  <2>1. GoResolve(n, "localUpload") /\ moves' \in Nat
        /\ UNCHANGED <<disk, state, conflicts, saved, isSyncing, run, marks, pending>>
    BY <1>1, <1>8 DEF KeepLocalDelete, TryDelete, Move, RestOK
  <2>2. resolve' \in [Name -> Resolve] /\ CopyInv'
    BY <1>4, <2>1 DEF ResolveStage, Copying
  <2> QED
    BY <1>1, <2>1, <2>2 DEF RestOK, state, marks
<1>9. CASE KeepLocalUpload(n)
  <2>1. /\ resolve' = [resolve EXCEPT ![n] = [@ EXCEPT !.pc = "localDone", !.created = clock + 1]]
        /\ touched' = touched \ {n} /\ stuck' = stuck \ {n}
        /\ UNCHANGED <<disk, state, conflicts, saved, isSyncing, run, beside, obeyed, pending, moves>>
    BY <1>9 DEF KeepLocalUpload, SyncedNow
  <2>2. resolve' \in [Name -> Resolve] /\ CopyInv'
    BY <1>5, <2>1 DEF ResolveStage, Copying
  <2> QED
    BY <1>1, <2>1, <2>2 DEF RestOK, state
<1>10. CASE KeepLocalDone(n)
  <2> DEFINE e == [id |-> resolve[n].created, content |-> disk[n]]
  <2>1. e \in Entry
    BY <1>1, <1>2, <1>10 DEF KeepLocalDone, RestOK, Entry, Manifest
  <2>2. /\ entries' = [entries EXCEPT ![n] = e] /\ Settle(n)
        /\ UNCHANGED <<disk, cursor, isSyncing, run, marks, moves>>
    BY <1>10 DEF KeepLocalDone
  <2> HIDE DEF e
  <2> QED
    BY <1>1, <1>7, <2>1, <2>2 DEF RestOK, marks
<1>11. CASE FetchRemote(n)
  <2>1. PICK pc \in {"fetched", "copyFetched"} :
          GoResolve(n, pc) /\ (pc \in Copying => resolve[n].pc \in Copying)
    BY <1>11 DEF FetchRemote, Resolving, Copying
  <2>2. UNCHANGED <<disk, server, state, conflicts, saved, isSyncing, run, watch>>
    BY <1>11 DEF FetchRemote
  <2>3. resolve' \in [Name -> Resolve] /\ CopyInv'
    BY <1>3, <1>4, <2>1 DEF ResolveStage
  <2> QED
    BY <1>1, <2>2, <2>3 DEF RestOK, state, watch, marks
<1>12. CASE AdoptRemote(n)
  <2> DEFINE c == ContentOf(resolve[n].id)  e == [id |-> resolve[n].id, content |-> c]
  <2>1. Kept(rows, gone, resolve[n].id)
    BY <1>12 DEF AdoptRemote, Resolving, FetchInv
  <2>2. c \in Content
    BY <2>1, FetchedContent DEF TypeOK
  <2>3. e \in Entry
    BY <1>2, <2>2 DEF Entry
  <2>4. /\ entries' = [entries EXCEPT ![n] = e] /\ Settle(n)
        /\ disk' = [disk EXCEPT ![n] = c] /\ touched' = touched \ {n} /\ stuck' = stuck \ {n}
        /\ UNCHANGED <<cursor, isSyncing, run, beside, obeyed, moves>>
    BY <1>12 DEF AdoptRemote, SyncedNow
  <2> HIDE DEF c, e
  <2> QED
    BY <1>1, <1>7, <2>2, <2>3, <2>4 DEF RestOK, Manifest
<1>13. CASE KeepBothUpload(n)
  <2> DEFINE copy == CopyName[n]
  <2>1. /\ resolve' = [resolve EXCEPT ![n] = [@ EXCEPT !.pc = "copyDone", !.created = clock + 1]]
        /\ touched' = touched \ {copy} /\ stuck' = stuck \ {copy} /\ resolve[n].pc = "copyUpload"
        /\ UNCHANGED <<disk, state, conflicts, saved, isSyncing, run, beside, obeyed, pending, moves>>
    BY <1>13 DEF KeepBothUpload, Resolving, SyncedNow
  <2>2. resolve' \in [Name -> Resolve] /\ CopyInv'
    BY <1>3, <1>5, <2>1 DEF ResolveStage, Copying
  <2> QED
    BY <1>1, <2>1, <2>2 DEF RestOK, state
<1>14. CASE KeepBothDone(n)
  <2> DEFINE copy == CopyName[n]  e == [id |-> resolve[n].created, content |-> disk[copy]]
  <2>1. copy \in Name /\ n \in PlainName
    BY <1>3, <1>14 DEF KeepBothDone, Resolving, Copying
  <2>2. e \in Entry
    BY <1>1, <1>2, <1>14, <2>1 DEF KeepBothDone, RestOK, Entry, Manifest
  <2>3. /\ entries' = [entries EXCEPT ![copy] = e] /\ GoResolve(n, "copyFetch")
        /\ UNCHANGED <<disk, cursor, conflicts, saved, isSyncing, run, watch>>
    BY <1>14 DEF KeepBothDone
  <2> HIDE DEF copy, e
  <2>4. resolve' \in [Name -> Resolve] /\ CopyInv'
    BY <1>4, <2>1, <2>3 DEF ResolveStage
  <2> QED
    BY <1>1, <2>1, <2>2, <2>3, <2>4 DEF RestOK, watch, marks
<1>15. CASE ResolveFails(n)
  <2>1. /\ moves' \in Nat /\ EndResolve(n)
        /\ UNCHANGED <<state, conflicts, saved, isSyncing, run, stuck, beside, obeyed, pending>>
    BY <1>1, <1>15 DEF ResolveFails, Move, RestOK
  <2>2. disk' \in Manifest /\ touched' \subseteq Name
    BY <1>1, <1>3, <1>15 DEF ResolveFails, RestOK, Copying, Manifest
  <2> QED
    BY <1>1, <1>6, <2>1, <2>2 DEF RestOK, state
<1> QED
  BY <1>8, <1>9, <1>10, <1>11, <1>12, <1>13, <1>14, <1>15
  DEF Resolution, KeepLocalDelete, KeepLocalUpload, KeepLocalDone, FetchRemote, AdoptRemote,
      KeepBothUpload, KeepBothDone, ResolveFails

LEMMA StartFields ==
  ASSUME TypeOK, NEW n \in Name, NEW kind, NEW pc \in {"localDelete", "fetch", "copyUpload"},
         StartResolve(n, kind, pc)
  PROVE  /\ resolve' \in [Name -> Resolve] /\ resolve'[n].pc = pc
         /\ \A m \in Name \ {n} : resolve'[m] = resolve[m]
         /\ moves' \in Nat /\ beside' \subseteq Name
<1> DEFINE r == [pc |-> pc, id |-> conflicts[n], created |-> 0]
<1>1. r \in Resolve /\ r.pc = pc
  BY DEF TypeOK, Resolve
<1>2. resolve' = [resolve EXCEPT ![n] = r]
  BY DEF StartResolve
<1> HIDE DEF r
<1>3. /\ resolve' \in [Name -> Resolve] /\ resolve'[n].pc = pc
      /\ \A m \in Name \ {n} : resolve'[m] = resolve[m]
  BY <1>1, <1>2 DEF TypeOK
<1>4. moves' \in Nat
  BY DEF StartResolve, Button, Move, TypeOK
<1>5. beside' \subseteq Name
  BY WorkedNames DEF StartResolve, TypeOK
<1> QED
  BY <1>3, <1>4, <1>5

LEMMA WorldRest ==
  ASSUME TypeOK, CopyInv, NEW n \in Name, World(n)
  PROVE  RestOK' /\ CopyInv' /\ UNCHANGED run
<1>1. RestOK
  BY DEF TypeOK, RestOK
<1>2. CASE (\E c \in Content : UserWrite(n, c) \/ DevicePut(n, c)) \/ UserRemove(n) \/ DeviceDrop(n)
  BY <1>1, <1>2 DEF UserWrite, DevicePut, UserRemove, DeviceDrop, Move, RestOK, CopyInv, Manifest,
     state, marks
<1>3. ASSUME NEW kind, NEW pc \in {"localDelete", "fetch", "copyUpload"}, StartResolve(n, kind, pc),
             pc = "copyUpload" => n \in PlainName
      PROVE  resolve' \in [Name -> Resolve] /\ CopyInv' /\ moves' \in Nat /\ beside' \subseteq Name
  <2>1. /\ resolve' \in [Name -> Resolve] /\ resolve'[n].pc = pc
        /\ \A m \in Name \ {n} : resolve'[m] = resolve[m]
        /\ moves' \in Nat /\ beside' \subseteq Name
    BY <1>3, StartFields
  <2> QED
    BY <1>3, <2>1 DEF CopyInv, Copying
<1>4. CASE KeepLocal(n)
  BY <1>1, <1>3, <1>4 DEF KeepLocal, RestOK, state
<1>5. CASE KeepRemote(n)
  BY <1>1, <1>3, <1>5 DEF KeepRemote, RestOK, state
<1>6. CASE KeepBoth(n)
  <2>1. n \in PlainName /\ CopyName[n] \in Name
    BY <1>6, Copies DEF KeepBoth
  <2>2. resolve' \in [Name -> Resolve] /\ CopyInv' /\ moves' \in Nat /\ beside' \subseteq Name
    BY <1>3, <1>6, <2>1 DEF KeepBoth
  <2>3. disk' \in Manifest /\ touched' \subseteq Name
    BY <1>1, <1>6, <2>1 DEF KeepBoth, RestOK, Manifest
  <2> QED
    BY <1>1, <1>6, <2>2, <2>3 DEF KeepBoth, RestOK, state
<1>7. CASE KeepBothRefused(n)
  <2>1. CopyName[n] \in Name
    BY <1>7, Copies DEF KeepBothRefused
  <2>2. disk' \in Manifest /\ touched' \subseteq Name /\ moves' \in Nat
    BY <1>1, <1>7, <2>1 DEF KeepBothRefused, Button, Move, RestOK, Manifest
  <2> QED
    BY <1>1, <1>7, <2>2 DEF KeepBothRefused, RestOK, CopyInv, state
<1> QED
  BY <1>2, <1>4, <1>5, <1>6, <1>7
  DEF World, UserWrite, DevicePut, UserRemove, DeviceDrop, KeepLocal, KeepRemote, KeepBoth,
      KeepBothRefused

-----------------------------------------------------------------------------
(* The basic invariants *)

\* A step of a caller that is not idle, and the end of its run.
LEMMA FlightSteps ==
  ASSUME TypeOK, SingleFlight, NEW t \in Trigger, Reconcile(t) \/ RunFails(t)
  PROVE  /\ SingleFlight'
         /\ \A u \in Trigger \ {t} : run[u].pc = "idle" /\ run'[u] = run[u]
<1>1. run \in [Trigger -> Run]
  BY DEF TypeOK
<1>2. CASE Begin(t)
  BY <1>1, <1>2 DEF SingleFlight, Begin, Step, IdleRun
<1>3. CASE EndRun(t) /\ run[t].pc # "idle"
  BY <1>1, <1>3 DEF SingleFlight, EndRun, Step, IdleRun
<1>4. CASE run[t].pc # "idle" /\ (\E r : Step(t, r)) /\ isSyncing' = isSyncing
  BY <1>1, <1>4 DEF SingleFlight, Step
<1>5. CASE List(t) \/ Diff(t) \/ Reply(t) \/ PassOver(t) \/ RecordConflict(t) \/ UploadNext(t)
           \/ EndUploads(t) \/ ApplyDeletions(t)
  BY <1>4, <1>5
  DEF List, Diff, Reply, PassOver, RecordConflict, UploadNext, EndUploads, ApplyDeletions, Acting
<1>6. CASE Download(t)
  BY <1>3, <1>4, <1>6 DEF Download, Acting
<1>downloaded. CASE Downloaded(t)
  BY <1>4, <1>downloaded DEF Downloaded
<1>7. CASE Replace(t) \/ Upload(t) \/ Uploaded(t) \/ RemoveRemote(t)
  BY <1>4, <1>7 DEF Replace, Upload, Uploaded, RemoveRemote, Go
<1>8. CASE UploadThrows(t) \/ Finish(t) \/ RunFails(t)
  BY <1>3, <1>8 DEF UploadThrows, Finish, RunFails, Acting
<1> QED
  BY <1>2, <1>5, <1>6, <1>7, <1>8, <1>downloaded DEF Reconcile

LEMMA PlanSteps ==
  ASSUME TypeOK, PlanInv, NEW t \in Trigger, Reconcile(t) \/ RunFails(t)
  PROVE  PlanInv'
<1> DEFINE q == run[t]
<1>1. /\ q \in Run /\ q.pc \in Stage /\ q.changed \in SUBSET Action /\ q.left \in SUBSET Name
      /\ Planned(q)
  BY DEF TypeOK, Run, Stage, Action, PlanInv
<1>2. ASSUME NEW r, Step(t, r), Planned(r) PROVE PlanInv'
  BY <1>2 DEF TypeOK, PlanInv, Step
<1>3. ASSUME NEW r, r.pc \in {"idle", "list", "diff", "reply", "act", "fetched"} PROVE Planned(r)
  BY <1>3 DEF Planned, Sending
<1>4. CASE EndRun(t)
  BY <1>2, <1>3, <1>4, Shapes DEF EndRun
<1>5. CASE Begin(t)
  <2>1. PICK U \in SUBSET Name :
          Step(t, [IdleRun EXCEPT !.pc = "list", !.unreadable = U, !.scan = Scan(U)])
    BY <1>5 DEF Begin
  <2> DEFINE r == [IdleRun EXCEPT !.pc = "list", !.unreadable = U, !.scan = Scan(U)]
  <2>2. r.pc = "list" /\ Step(t, r)
    BY <2>1, BegunRun
  <2> HIDE DEF r
  <2> QED
    BY <1>2, <1>3, <2>2
<1>6. ASSUME NEW pc \in {"diff", "reply", "act"}, NEW x, NEW y, NEW z,
             \/ Step(t, [q EXCEPT !.pc = pc, !.remote = x])
             \/ Step(t, [q EXCEPT !.pc = pc, !.changed = x, !.deleted = y, !.newVersion = z])
             \/ Step(t, [q EXCEPT !.pc = pc, !.conflicted = x])
      PROVE  PlanInv'
  <2> HIDE DEF q
  <2>1. /\ [q EXCEPT !.pc = pc, !.remote = x].pc = pc
        /\ [q EXCEPT !.pc = pc, !.changed = x, !.deleted = y, !.newVersion = z].pc = pc
        /\ [q EXCEPT !.pc = pc, !.conflicted = x].pc = pc
    BY <1>1 DEF Run
  <2>2. PICK r : Step(t, r) /\ r.pc = pc
    BY <1>6, <2>1
  <2> QED
    BY <1>2, <1>3, <2>2
<1>7. ASSUME NEW x, NEW y,
             \/ Step(t, [q EXCEPT !.pc = "act", !.changed = x, !.downloaded = y])
             \/ Step(t, [q EXCEPT !.changed = x, !.conflicted = y]) /\ q.pc = "act"
             \/ Step(t, [q EXCEPT !.changed = x]) /\ q.pc = "act"
             \/ Step(t, [q EXCEPT !.pc = "fetched", !.id = x])
      PROVE  PlanInv'
  <2> HIDE DEF q
  <2>1. /\ [q EXCEPT !.pc = "act", !.changed = x, !.downloaded = y].pc = "act"
        /\ q.pc = "act" => [q EXCEPT !.changed = x, !.conflicted = y].pc = "act"
        /\ q.pc = "act" => [q EXCEPT !.changed = x].pc = "act"
        /\ [q EXCEPT !.pc = "fetched", !.id = x].pc = "fetched"
    BY <1>1 DEF Run
  <2>2. PICK r : Step(t, r) /\ r.pc \in {"act", "fetched"}
    BY <1>7, <2>1
  <2> QED
    BY <1>2, <1>3, <2>2
<1>8. CASE ApplyDeletions(t)
  <2> DEFINE r == [q EXCEPT !.pc = "uploads", !.left = ToUpload(t)]
  <2>1. Step(t, r)
    BY <1>8 DEF ApplyDeletions
  <2>2. /\ r.pc = "uploads" /\ r.left = ToUpload(t)
        /\ r.scan = q.scan /\ r.deleted = q.deleted /\ r.conflicted = q.conflicted
    BY <1>1 DEF Run
  <2> HIDE DEF r
  <2>3. Planned(r)
    BY <2>2 DEF Planned, Sending, ToSend, ToUpload
  <2> QED
    BY <1>2, <2>1, <2>3
<1>9. CASE UploadNext(t)
  <2>1. PICK n \in q.left, pc \in {"replace", "upload"} :
          Step(t, [q EXCEPT !.pc = pc, !.left = q.left \ {n}, !.name = n]) /\ q.pc = "uploads"
    BY <1>9 DEF UploadNext
  <2> DEFINE r == [q EXCEPT !.pc = pc, !.left = q.left \ {n}, !.name = n]
  <2>2. /\ r.pc = pc /\ r.left = q.left \ {n} /\ r.name = n
        /\ r.scan = q.scan /\ r.deleted = q.deleted /\ r.conflicted = q.conflicted
    BY <1>1 DEF Run
  <2> HIDE DEF r, q
  <2>3. Planned(r)
    BY <1>1, <2>1, <2>2 DEF Planned, Sending, ToSend
  <2> QED
    BY <1>2, <2>1, <2>3 DEF r, q
<1>10. ASSUME NEW pc \in {"uploads"} \cup Sending, NEW id, q.pc \in Sending,
              Step(t, [q EXCEPT !.pc = pc]) \/ Step(t, [q EXCEPT !.pc = pc, !.id = id])
       PROVE  PlanInv'
  <2> DEFINE F(r) == /\ r.pc = pc /\ r.left = q.left /\ r.name = q.name
                     /\ r.scan = q.scan /\ r.deleted = q.deleted /\ r.conflicted = q.conflicted
  <2>1. F([q EXCEPT !.pc = pc]) /\ F([q EXCEPT !.pc = pc, !.id = id])
    BY <1>1 DEF Run
  <2>2. PICK r : Step(t, r) /\ F(r)
    <3> HIDE DEF F
    <3> QED
      BY <1>10, <2>1
  <2> HIDE DEF q
  <2>3. Planned(r)
    BY <1>1, <1>10, <2>2 DEF Planned, Sending, ToSend
  <2> QED
    BY <1>2, <2>2, <2>3
<1>11. CASE Replace(t) \/ Upload(t) \/ Uploaded(t)
  <2>1. q.pc \in Sending
    BY <1>11 DEF Replace, Upload, Uploaded, Sending
  <2>2. \E pc, id :
          /\ pc \in {"uploads"} \cup Sending
          /\ Step(t, [q EXCEPT !.pc = pc]) \/ Step(t, [q EXCEPT !.pc = pc, !.id = id])
    BY <1>11 DEF Replace, Upload, Uploaded, Go, Sending
  <2> QED
    BY <1>10, <2>1, <2>2
<1>12. CASE EndUploads(t)
  <2> DEFINE r == [q EXCEPT !.pc = "removals", !.left = RemovedLocally(t)]
  <2>1. Step(t, r)
    BY <1>12 DEF EndUploads
  <2>2. /\ r.pc = "removals" /\ r.left = RemovedLocally(t) /\ r.scan = q.scan
        /\ r.unreadable = q.unreadable /\ r.conflicted = q.conflicted
        /\ r.downloaded = q.downloaded
    BY <1>1 DEF Run
  <2> HIDE DEF r
  <2>3. Planned(r)
    BY <2>2 DEF Planned, Sending, Missing, RemovedLocally
  <2> QED
    BY <1>2, <2>1, <2>3
<1>13. CASE RemoveRemote(t)
  <2>1. PICK n \in q.left : Step(t, [q EXCEPT !.left = q.left \ {n}]) /\ q.pc = "removals"
    BY <1>13 DEF RemoveRemote
  <2> DEFINE r == [q EXCEPT !.left = q.left \ {n}]
  <2>2. /\ r.pc = q.pc /\ r.left = q.left \ {n} /\ r.scan = q.scan
        /\ r.unreadable = q.unreadable /\ r.conflicted = q.conflicted
        /\ r.downloaded = q.downloaded
    BY <1>1 DEF Run
  <2> HIDE DEF r, q
  <2>3. Planned(r)
    BY <1>1, <2>1, <2>2 DEF Planned, Sending, Missing
  <2> QED
    BY <1>2, <2>1, <2>3 DEF r, q
<1>14. CASE UploadThrows(t) \/ Finish(t) \/ RunFails(t)
  BY <1>4, <1>14 DEF UploadThrows, Finish, RunFails
<1> QED
  BY <1>4, <1>5, <1>6, <1>7, <1>8, <1>9, <1>11, <1>12, <1>13, <1>14
  DEF Reconcile, List, Diff, Reply, Download, Downloaded, PassOver, RecordConflict, Acting

-----------------------------------------------------------------------------
(* What each step leaves in the record of its caller *)

\* What a run learned from the scan, the listing and the diff.
HeldScan(t) ==
  /\ run'[t].scan = run[t].scan /\ run'[t].unreadable = run[t].unreadable
  /\ run'[t].downloaded = run[t].downloaded

HeldReport(t) ==
  /\ run'[t].scan = run[t].scan /\ run'[t].unreadable = run[t].unreadable
  /\ run'[t].remote = run[t].remote /\ run'[t].deleted = run[t].deleted
  /\ run'[t].newVersion = run[t].newVersion

\* What it has done about the report.
HeldActions(t) ==
  /\ HeldReport(t)
  /\ run'[t].conflicted = run[t].conflicted /\ run'[t].downloaded = run[t].downloaded

LEMMA BeginFields ==
  ASSUME TypeOK, NEW t \in Trigger
  PROVE  /\ EndRun(t) => run'[t].pc = "idle"
         /\ Begin(t) => /\ run'[t].pc = "list" /\ run'[t].downloaded = {}
                        /\ run'[t].scan = Scan(run'[t].unreadable)
         /\ List(t) => /\ run'[t].pc = "diff" /\ HeldScan(t)
                       /\ run'[t].remote = [n \in Name |-> IdOf(rows, n)]
         /\ Diff(t) => /\ run'[t].pc = "reply" /\ HeldScan(t)
                       /\ run'[t].remote = run[t].remote
                       /\ run'[t].changed = ChangeActions(rows, cursor, run[t].scan)
                       /\ run'[t].deleted = DeleteActions(gone, cursor)
                       /\ run'[t].newVersion = NewVersion(rows, gone, cursor)
         /\ Reply(t) => /\ run'[t].pc = "act" /\ HeldReport(t)
                        /\ run'[t].conflicted = OpenConflicts
                        /\ run'[t].downloaded = run[t].downloaded
                        /\ run'[t].changed = run[t].changed
<1> DEFINE q == run[t]
<1>1. q \in Run /\ run \in [Trigger -> Run]
  BY DEF TypeOK
<1>2. ASSUME NEW r, Step(t, r) PROVE run'[t] = r
  BY <1>1, <1>2 DEF Step
<1>3. EndRun(t) => run'[t].pc = "idle"
  BY <1>2, Shapes DEF EndRun
<1>4. ASSUME Begin(t)
      PROVE  /\ run'[t].pc = "list" /\ run'[t].downloaded = {}
             /\ run'[t].scan = Scan(run'[t].unreadable)
  <2>1. PICK U \in SUBSET Name :
          Step(t, [IdleRun EXCEPT !.pc = "list", !.unreadable = U, !.scan = Scan(U)])
    BY <1>4 DEF Begin
  <2> DEFINE r == [IdleRun EXCEPT !.pc = "list", !.unreadable = U, !.scan = Scan(U)]
  <2>2. r.pc = "list" /\ r.downloaded = {} /\ r.scan = Scan(U) /\ r.unreadable = U
    BY BegunRun
  <2>3. run'[t] = r
    BY <1>2, <2>1
  <2> HIDE DEF r
  <2> QED
    BY <2>2, <2>3
<1>5. ASSUME List(t)
      PROVE  /\ run'[t].pc = "diff" /\ HeldScan(t)
             /\ run'[t].remote = [n \in Name |-> IdOf(rows, n)]
  <2> DEFINE R == [n \in Name |-> IdOf(rows, n)]
  <2>1. run'[t] = [q EXCEPT !.pc = "diff", !.remote = R]
    BY <1>2, <1>5 DEF List
  <2> HIDE DEF R
  <2>2. run'[t].pc = "diff" /\ HeldScan(t) /\ run'[t].remote = R
    BY <1>1, <2>1 DEF Run, HeldScan
  <2> QED
    BY <2>2 DEF R
<1>6. ASSUME Diff(t)
      PROVE  /\ run'[t].pc = "reply" /\ HeldScan(t)
             /\ run'[t].remote = run[t].remote
             /\ run'[t].changed = ChangeActions(rows, cursor, run[t].scan)
             /\ run'[t].deleted = DeleteActions(gone, cursor)
             /\ run'[t].newVersion = NewVersion(rows, gone, cursor)
  <2>1. run'[t] = [q EXCEPT !.pc = "reply", !.changed = ChangeActions(rows, cursor, q.scan),
                     !.deleted = DeleteActions(gone, cursor),
                     !.newVersion = NewVersion(rows, gone, cursor)]
    BY <1>2, <1>6 DEF Diff
  <2> QED
    BY <1>1, <2>1 DEF Run, HeldScan
<1>7. ASSUME Reply(t)
      PROVE  /\ run'[t].pc = "act" /\ HeldReport(t)
             /\ run'[t].conflicted = OpenConflicts
             /\ run'[t].downloaded = run[t].downloaded
             /\ run'[t].changed = run[t].changed
  <2>1. run'[t] = [q EXCEPT !.pc = "act", !.conflicted = OpenConflicts]
    BY <1>2, <1>7 DEF Reply
  <2> QED
    BY <1>1, <2>1 DEF Run, HeldReport
<1> QED
  BY <1>3, <1>4, <1>5, <1>6, <1>7

LEMMA ActionFields ==
  ASSUME TypeOK, NEW t \in Trigger
  PROVE  /\ Download(t) /\ ~EndRun(t) =>
              /\ run'[t].pc = "fetched" /\ HeldActions(t) /\ run'[t].changed = run[t].changed
              /\ run'[t].id = run[t].remote[NextAction(t).name]
         /\ Downloaded(t) =>
              /\ run'[t].pc = "act" /\ HeldReport(t)
              /\ run'[t].changed = Remaining(t)
              /\ run'[t].conflicted = run[t].conflicted
              /\ run'[t].downloaded = run[t].downloaded \cup {NextAction(t).name}
         /\ PassOver(t) =>
              /\ run'[t].pc = "act" /\ HeldActions(t) /\ run'[t].changed = Remaining(t)
         /\ RecordConflict(t) =>
              /\ run'[t].pc = "act" /\ HeldReport(t)
              /\ run'[t].changed = Remaining(t)
              /\ run'[t].conflicted = run[t].conflicted \cup {NextAction(t).name}
              /\ run'[t].downloaded = run[t].downloaded
         /\ ApplyDeletions(t) =>
              /\ run'[t].pc = "uploads" /\ HeldActions(t)
<1> DEFINE q == run[t]  a == NextAction(t)  rest == Remaining(t)
<1>1. q \in Run /\ run \in [Trigger -> Run]
  BY DEF TypeOK
<1>2. ASSUME NEW r, Step(t, r) PROVE run'[t] = r
  BY <1>1, <1>2 DEF Step
<1>3. Downloaded(t) =>
        run'[t] = [q EXCEPT !.pc = "act", !.changed = rest, !.downloaded = q.downloaded \cup {a.name}]
  BY <1>2 DEF Downloaded
<1>fetch. Download(t) /\ ~EndRun(t) => run'[t] = [q EXCEPT !.pc = "fetched", !.id = q.remote[a.name]]
  BY <1>2 DEF Download
<1>4. PassOver(t) => q.pc = "act" /\ run'[t] = [q EXCEPT !.changed = rest]
  BY <1>2 DEF PassOver, Acting
<1>5. RecordConflict(t) =>
        q.pc = "act"
        /\ run'[t] = [q EXCEPT !.changed = rest, !.conflicted = q.conflicted \cup {a.name}]
  BY <1>2 DEF RecordConflict, Acting
<1>6. ApplyDeletions(t) => run'[t] = [q EXCEPT !.pc = "uploads", !.left = ToUpload(t)]
  BY <1>2 DEF ApplyDeletions
<1> HIDE DEF a, rest
<1>fetched. Download(t) /\ ~EndRun(t) =>
        /\ run'[t].pc = "fetched" /\ HeldActions(t) /\ run'[t].changed = run[t].changed
        /\ run'[t].id = run[t].remote[a.name]
  BY <1>1, <1>fetch DEF Run, HeldReport, HeldActions
<1>7. Downloaded(t) =>
        /\ run'[t].pc = "act" /\ HeldReport(t)
        /\ run'[t].changed = rest
        /\ run'[t].conflicted = run[t].conflicted
        /\ run'[t].downloaded = run[t].downloaded \cup {a.name}
  BY <1>1, <1>3 DEF Run, HeldReport
<1>8. PassOver(t) => run'[t].pc = "act" /\ HeldActions(t) /\ run'[t].changed = rest
  BY <1>1, <1>4 DEF Run, HeldReport, HeldActions
<1>9. RecordConflict(t) =>
        /\ run'[t].pc = "act" /\ HeldReport(t)
        /\ run'[t].changed = rest
        /\ run'[t].conflicted = run[t].conflicted \cup {a.name}
        /\ run'[t].downloaded = run[t].downloaded
  BY <1>1, <1>5 DEF Run, HeldReport
<1>10. ApplyDeletions(t) => run'[t].pc = "uploads" /\ HeldActions(t)
  BY <1>1, <1>6 DEF Run, HeldReport, HeldActions
<1> QED
  BY <1>7, <1>8, <1>9, <1>10, <1>fetched DEF a, rest

LEMMA UploadFields ==
  ASSUME TypeOK, NEW t \in Trigger
  PROVE  /\ UploadNext(t) => /\ HeldActions(t) /\ run'[t].name \in run[t].left
                             /\ Edited(t, run'[t].name) \/ New(t, run'[t].name)
                             /\ run'[t].pc = IF Known(run'[t].name) THEN "replace" ELSE "upload"
         /\ Replace(t) => /\ run'[t].pc = "upload" /\ HeldActions(t)
                          /\ run'[t].name = run[t].name
         /\ Upload(t) => /\ run'[t].pc = "uploaded" /\ HeldActions(t)
                         /\ run'[t].name = run[t].name /\ run'[t].id = clock + 1
         /\ Uploaded(t) => run'[t].pc = "uploads" /\ HeldActions(t)
         /\ EndUploads(t) => run'[t].pc = "removals" /\ HeldActions(t)
         /\ RemoveRemote(t) => run'[t].pc = "removals" /\ HeldActions(t)
<1> DEFINE q == run[t]
<1>1. q \in Run /\ run \in [Trigger -> Run]
  BY DEF TypeOK
<1>2. ASSUME NEW r, Step(t, r) PROVE run'[t] = r
  BY <1>1, <1>2 DEF Step
<1>3. ASSUME UploadNext(t)
      PROVE  /\ HeldActions(t) /\ run'[t].name \in run[t].left
             /\ Edited(t, run'[t].name) \/ New(t, run'[t].name)
             /\ run'[t].pc = IF Known(run'[t].name) THEN "replace" ELSE "upload"
  <2>1. PICK n \in q.left :
          /\ Edited(t, n) \/ New(t, n)
          /\ run'[t] = [q EXCEPT !.pc = IF Known(n) THEN "replace" ELSE "upload",
                                 !.left = q.left \ {n}, !.name = n]
    BY <1>2, <1>3 DEF UploadNext
  <2> DEFINE pc == IF Known(n) THEN "replace" ELSE "upload"  L == q.left \ {n}
  <2>2. run'[t] = [q EXCEPT !.pc = pc, !.left = L, !.name = n]
    BY <2>1
  <2> HIDE DEF pc, L
  <2>3. run'[t].pc = pc /\ run'[t].name = n /\ HeldActions(t)
    BY <1>1, <2>2 DEF Run, HeldActions, HeldReport
  <2> QED
    BY <2>1, <2>3 DEF pc
<1>4. Replace(t) => run'[t] = [q EXCEPT !.pc = "upload"]
  BY <1>2 DEF Replace, Go
<1>5. Upload(t) => run'[t] = [q EXCEPT !.pc = "uploaded", !.id = clock + 1]
  BY <1>2 DEF Upload
<1>6. Uploaded(t) => run'[t] = [q EXCEPT !.pc = "uploads"]
  BY <1>2 DEF Uploaded, Go
<1>7. EndUploads(t) => run'[t] = [q EXCEPT !.pc = "removals", !.left = RemovedLocally(t)]
  BY <1>2 DEF EndUploads
<1>8. RemoveRemote(t) => q.pc = "removals" /\ \E L : run'[t] = [q EXCEPT !.left = L]
  BY <1>2 DEF RemoveRemote
<1>9. Replace(t) => run'[t].pc = "upload" /\ HeldActions(t) /\ run'[t].name = run[t].name
  BY <1>1, <1>4 DEF Run, HeldActions, HeldReport
<1>10. Upload(t) => /\ run'[t].pc = "uploaded" /\ HeldActions(t)
                    /\ run'[t].name = run[t].name /\ run'[t].id = clock + 1
  BY <1>1, <1>5 DEF Run, HeldActions, HeldReport
<1>11. Uploaded(t) => run'[t].pc = "uploads" /\ HeldActions(t)
  BY <1>1, <1>6 DEF Run, HeldActions, HeldReport
<1>12. EndUploads(t) => run'[t].pc = "removals" /\ HeldActions(t)
  BY <1>1, <1>7 DEF Run, HeldActions, HeldReport
<1>13. RemoveRemote(t) => run'[t].pc = "removals" /\ HeldActions(t)
  BY <1>1, <1>8 DEF Run, HeldActions, HeldReport
<1> QED
  BY <1>3, <1>9, <1>10, <1>11, <1>12, <1>13

-----------------------------------------------------------------------------
(* The basic invariants are inductive *)

LEMMA CursorSteps ==
  ASSUME TypeOK, ServerInv, SingleFlight, CursorInv, Advances, ServerTypeOK',
         NEW t \in Trigger, Reconcile(t) \/ RunFails(t)
  PROVE  CursorInv'
<1>1. /\ run[t].newVersion \in Nat /\ cursor \in Nat /\ saved.cursor \in Nat
      /\ clock \in Nat /\ clock' \in Nat /\ clock <= clock' /\ run[t].scan \in Manifest
      /\ saved.cursor <= cursor /\ cursor <= clock
      /\ run[t].pc \in Reported
           => cursor <= run[t].newVersion /\ run[t].newVersion <= clock
  BY DEF TypeOK, Run, Advances, ServerTypeOK, CursorInv, Reported
<1>2. \A u \in Trigger \ {t} : run'[u].pc = "idle"
  BY FlightSteps
<1>3. ASSUME UNCHANGED <<cursor, saved>>,
             run'[t].pc \in Reported
               => /\ run'[t].newVersion \in Nat
                  /\ cursor <= run'[t].newVersion /\ run'[t].newVersion <= clock
      PROVE  CursorInv'
  BY <1>1, <1>2, <1>3 DEF CursorInv, Reported
<1>4. CASE EndRun(t) /\ UNCHANGED <<cursor, saved>>
  BY <1>3, <1>4, BeginFields DEF Reported
<1>5. CASE Begin(t) \/ List(t)
  BY <1>3, <1>5, BeginFields DEF Begin, List, state, Reported
<1>6. CASE Diff(t)
  <2>1. UNCHANGED <<cursor, saved>> /\ run'[t].newVersion = NewVersion(rows, gone, cursor)
    BY <1>6, BeginFields DEF Diff, state
  <2>2. NewVersion(rows, gone, cursor) \in Nat
        /\ cursor <= NewVersion(rows, gone, cursor) /\ NewVersion(rows, gone, cursor) <= clock
    BY <1>1, Report DEF TypeOK
  <2> QED
    BY <1>3, <2>1, <2>2
<1>7. CASE Reply(t) \/ (Download(t) /\ ~EndRun(t)) \/ Downloaded(t) \/ PassOver(t)
           \/ RecordConflict(t)
  <2>1. run'[t].newVersion = run[t].newVersion
    BY <1>7, BeginFields, ActionFields DEF HeldActions, HeldReport
  <2>2. run[t].pc \in Reported /\ UNCHANGED <<cursor, saved>>
    BY <1>7 DEF Reply, Download, Downloaded, PassOver, RecordConflict, Acting, Reported, state
  <2> QED
    BY <1>1, <1>3, <2>1, <2>2
<1>8. CASE ApplyDeletions(t)
  <2>1. run'[t].pc = "uploads" /\ cursor' = run[t].newVersion /\ saved' = saved
        /\ run[t].pc = "act"
    BY <1>8, ActionFields DEF ApplyDeletions
  <2> QED
    BY <1>1, <1>2, <2>1 DEF CursorInv, Reported
<1>9. CASE UploadNext(t) \/ Replace(t) \/ Upload(t) \/ Uploaded(t) \/ EndUploads(t)
           \/ RemoveRemote(t)
  <2>1. UNCHANGED <<cursor, saved>>
    BY <1>9 DEF UploadNext, Replace, Upload, Uploaded, EndUploads, RemoveRemote, state
  <2>2. run'[t].pc \notin Reported
    BY <1>9, UploadFields DEF Reported
  <2> QED
    BY <1>3, <2>1, <2>2
<1>10. CASE Finish(t)
  <2>1. run'[t].pc = "idle" /\ cursor' = cursor /\ saved'.cursor = cursor
    BY <1>10, BeginFields DEF Finish, state
  <2> QED
    BY <1>1, <1>2, <2>1 DEF CursorInv, Reported
<1>11. CASE UploadThrows(t) \/ RunFails(t) \/ (Download(t) /\ EndRun(t))
  BY <1>4, <1>11 DEF UploadThrows, RunFails, Download, state
<1> QED
  BY <1>5, <1>6, <1>7, <1>8, <1>9, <1>10, <1>11 DEF Reconcile

\* A step of a run leaves the resolutions alone.
LEMMA RunsKeepResolutions ==
  ASSUME NEW t \in Trigger, Reconcile(t) \/ RunFails(t)
  PROVE  UNCHANGED resolve
BY DEF Reconcile, RunFails, Begin, List, Diff, Reply, Download, Downloaded, PassOver,
   RecordConflict, ApplyDeletions, UploadNext, Replace, Upload, UploadThrows, Uploaded,
   EndUploads, RemoveRemote, Finish

LEMMA RunFetches ==
  ASSUME TypeOK, SingleFlight, FetchInv, Advances, NEW t \in Trigger, Reconcile(t) \/ RunFails(t)
  PROVE  FetchInv'
<1>1. UNCHANGED resolve /\ \A u \in Trigger \ {t} : run'[u].pc = "idle"
  BY RunsKeepResolutions, FlightSteps
<1>2. \A n \in Name : resolve'[n].pc \in {"fetched", "copyFetched"} => Kept(rows', gone', resolve'[n].id)
  BY <1>1, KeptStays DEF FetchInv
<1>3. run'[t].pc # "fetched" => FetchInv'
  BY <1>1, <1>2 DEF FetchInv
<1>4. CASE Download(t) /\ ~EndRun(t)
  <2>1. /\ run'[t].changed = run[t].changed /\ run'[t].remote = run[t].remote
        /\ run'[t].id = run[t].remote[NextAction(t).name]
    BY <1>4, ActionFields DEF HeldActions, HeldReport
  <2>2. /\ run[t].changed # {} /\ NextAction(t).action = "download"
        /\ run[t].remote[NextAction(t).name] # 0 /\ Exists(run[t].remote[NextAction(t).name])
    BY <1>4 DEF Download, Acting
  <2>3. NextAction(t)' = NextAction(t)
    BY <2>1 DEF NextAction
  <2>4. Kept(rows', gone', run'[t].id)
    BY <2>1, <2>2, KeptStays DEF Exists, Kept
  <2> QED
    BY <1>1, <1>2, <2>1, <2>2, <2>3, <2>4 DEF FetchInv
<1>5. CASE EndRun(t)
  BY <1>3, <1>5, BeginFields
<1>6. CASE Begin(t) \/ List(t) \/ Diff(t) \/ Reply(t)
  BY <1>3, <1>6, BeginFields
<1>7. CASE Downloaded(t) \/ PassOver(t) \/ RecordConflict(t) \/ ApplyDeletions(t)
  BY <1>3, <1>7, ActionFields
<1>8. CASE UploadNext(t) \/ Replace(t) \/ Upload(t) \/ Uploaded(t) \/ EndUploads(t) \/ RemoveRemote(t)
  BY <1>3, <1>8, UploadFields
<1> QED
  BY <1>4, <1>5, <1>6, <1>7, <1>8 DEF Reconcile, UploadThrows, Finish, RunFails

LEMMA ResolutionFetches ==
  ASSUME TypeOK, FetchInv, Advances, NEW n \in Name, Resolution(n), UNCHANGED run
  PROVE  FetchInv'
<1>1. resolve \in [Name -> Resolve] /\ clock + 1 \in Nat
  BY DEF TypeOK, ServerTypeOK
<1>2. \A t \in Trigger : NextAction(t)' = NextAction(t)
  BY DEF NextAction
<1>3. \A t \in Trigger : run[t].pc = "fetched" => Kept(rows', gone', run[t].id)
  BY KeptStays DEF FetchInv
<1>4. ASSUME \A m \in Name \ {n} : resolve'[m] = resolve[m],
             resolve'[n].pc \in {"fetched", "copyFetched"} => Kept(rows, gone, resolve'[n].id)
      PROVE  FetchInv'
  <2>1. \A m \in Name : resolve'[m].pc \in {"fetched", "copyFetched"} => Kept(rows', gone', resolve'[m].id)
    BY <1>4, KeptStays DEF FetchInv
  <2> QED
    BY <1>2, <1>3, <2>1 DEF FetchInv
<1>5. ASSUME NEW pc \in ResolveStage \ {"fetched", "copyFetched"}, GoResolve(n, pc) PROVE FetchInv'
  <2>1. resolve'[n].pc = pc /\ \A m \in Name \ {n} : resolve'[m] = resolve[m]
    BY <1>1, <1>5, ResolveSteps
  <2> QED
    BY <1>4, <2>1
<1>6. ASSUME NEW pc \in {"localDone", "copyDone"},
             resolve' = [resolve EXCEPT ![n] = [@ EXCEPT !.pc = pc, !.created = clock + 1]]
      PROVE  FetchInv'
  <2>1. resolve'[n].pc = pc /\ \A m \in Name \ {n} : resolve'[m] = resolve[m]
    BY <1>1, <1>6, ResolveSteps DEF ResolveStage
  <2> QED
    BY <1>4, <2>1
<1>7. EndResolve(n) => FetchInv'
  BY <1>1, <1>4, ResolveSteps
<1>8. CASE FetchRemote(n)
  <2>1. PICK pc \in {"fetched", "copyFetched"} : GoResolve(n, pc)
    BY <1>8 DEF FetchRemote
  <2>2. resolve'[n].id = resolve[n].id /\ \A m \in Name \ {n} : resolve'[m] = resolve[m]
    BY <1>1, <2>1, ResolveSteps DEF ResolveStage
  <2>3. Kept(rows, gone, resolve[n].id)
    BY <1>8 DEF FetchRemote, Exists, Kept
  <2> QED
    BY <1>4, <2>2, <2>3
<1>9. CASE KeepLocalDelete(n) \/ KeepBothDone(n)
  BY <1>5, <1>9 DEF KeepLocalDelete, KeepBothDone, ResolveStage
<1>10. CASE KeepLocalUpload(n) \/ KeepBothUpload(n)
  BY <1>6, <1>10 DEF KeepLocalUpload, KeepBothUpload
<1>11. CASE KeepLocalDone(n) \/ AdoptRemote(n) \/ ResolveFails(n)
  BY <1>7, <1>11 DEF KeepLocalDone, AdoptRemote, ResolveFails, Settle
<1> QED
  BY <1>8, <1>9, <1>10, <1>11 DEF Resolution

LEMMA WorldFetches ==
  ASSUME TypeOK, FetchInv, Advances, NEW n \in Name, World(n), UNCHANGED run
  PROVE  FetchInv'
<1>1. \A t \in Trigger : NextAction(t)' = NextAction(t)
  BY DEF NextAction
<1>2. \A t \in Trigger : run[t].pc = "fetched" => Kept(rows', gone', run[t].id)
  BY KeptStays DEF FetchInv
<1>3. \A m \in Name : resolve'[m] = resolve[m] \/ resolve'[m].pc \notin {"fetched", "copyFetched"}
  <2>1. ASSUME NEW kind, NEW pc \in {"localDelete", "fetch", "copyUpload"}, StartResolve(n, kind, pc)
        PROVE  resolve'[n].pc = pc /\ \A m \in Name \ {n} : resolve'[m] = resolve[m]
    BY <2>1, StartFields
  <2>2. CASE UNCHANGED resolve
    BY <2>2
  <2>3. CASE KeepLocal(n) \/ KeepRemote(n) \/ KeepBoth(n)
    BY <2>1, <2>3 DEF KeepLocal, KeepRemote, KeepBoth
  <2> QED
    BY <2>2, <2>3 DEF World, UserWrite, UserRemove, DevicePut, DeviceDrop, KeepBothRefused
<1>4. \A m \in Name : resolve'[m].pc \in {"fetched", "copyFetched"} => Kept(rows', gone', resolve'[m].id)
  BY <1>3, KeptStays DEF FetchInv
<1> QED
  BY <1>1, <1>2, <1>4 DEF FetchInv

LEMMA BasicsInit == Init => Basics
<1> SUFFICES ASSUME Init PROVE Basics
  OBVIOUS
<1>1. run = [t \in Trigger |-> IdleRun] /\ resolve = [n \in Name |-> IdleResolve]
  BY DEF Init
<1>2. TypeOK
  BY <1>1, Shapes DEF Init, ServerInit, TypeOK, ServerTypeOK, Entry
<1>3. PlanInv /\ SingleFlight /\ CursorInv
  BY <1>1, Shapes DEF Init, ServerInit, PlanInv, Planned, Sending, SingleFlight, CursorInv, Reported
<1>4. CopyInv /\ FetchInv
  BY <1>1, Shapes DEF CopyInv, Copying, FetchInv
<1>5. ServerInv
  BY DEF Init, ServerInit, ServerInv
<1> QED
  BY <1>2, <1>3, <1>4, <1>5 DEF Basics

LEMMA BasicsNext == Basics /\ [Next]_vars => Basics'
<1> SUFFICES ASSUME Basics, [Next]_vars PROVE Basics'
  OBVIOUS
<1>1. CASE UNCHANGED vars
  <2>1. TypeOK' /\ ServerInv' /\ PlanInv' /\ CopyInv' /\ SingleFlight' /\ CursorInv'
    BY <1>1 DEF vars, Basics, TypeOK, ServerTypeOK, ServerInv, PlanInv, CopyInv, SingleFlight,
       CursorInv
  <2>2. FetchInv'
    BY <1>1 DEF vars, Basics, FetchInv, NextAction, Kept
  <2> QED
    BY <2>1, <2>2 DEF Basics
<1>2. ASSUME Next
      PROVE  ServerTypeOK' /\ ServerInv' /\ Advances /\ clock \in Nat /\ clock' \in Nat
  BY <1>2, NextServed, ServerSteps DEF Basics, TypeOK, ServerTypeOK
<1>3. ASSUME NEW t \in Trigger, Reconcile(t) \/ RunFails(t), Next PROVE Basics'
  <2>1. RestOK' /\ PlanInv' /\ SingleFlight'
    BY <1>3, ReconcileRest, PlanSteps, FlightSteps DEF Basics
  <2>2. run' \in [Trigger -> Run]
    BY <1>3, RunSteps DEF Basics, TypeOK, Step
  <2>3. CursorInv'
    BY <1>2, <1>3, CursorSteps DEF Basics
  <2>4. FetchInv'
    BY <1>2, <1>3, RunFetches DEF Basics
  <2>5. CopyInv'
    BY <1>3, RunsKeepResolutions DEF Basics, CopyInv
  <2> QED
    BY <1>2, <1>3, <2>1, <2>2, <2>3, <2>4, <2>5 DEF Basics, TypeOK, RestOK
<1>4. ASSUME Next, RestOK', CopyInv', FetchInv', UNCHANGED run, UNCHANGED cursor,
             saved'.cursor = saved.cursor \/ saved'.cursor = cursor, UNCHANGED isSyncing
      PROVE  Basics'
  <2>1. TypeOK' /\ ServerInv'
    BY <1>2, <1>4 DEF Basics, TypeOK, RestOK
  <2>2. PlanInv' /\ SingleFlight'
    BY <1>4 DEF Basics, PlanInv, SingleFlight
  <2>3. CursorInv'
    <3>1. cursor \in Nat /\ saved.cursor \in Nat /\ saved.cursor <= cursor /\ cursor <= clock
      BY DEF Basics, TypeOK, CursorInv
    <3>2. clock <= clock' /\ clock \in Nat /\ clock' \in Nat
      BY <1>2, <1>4 DEF Advances
    <3>3. \A t \in Trigger : run[t].newVersion \in Nat
      BY DEF Basics, TypeOK, Run
    <3> QED
      BY <1>4, <3>1, <3>2, <3>3 DEF Basics, CursorInv
  <2> QED
    BY <1>4, <2>1, <2>2, <2>3 DEF Basics
<1>5. ASSUME NEW n \in Name, Resolution(n), Next PROVE Basics'
  <2>1. RestOK' /\ CopyInv' /\ UNCHANGED run
    BY <1>5, ResolutionRest DEF Basics
  <2>2. UNCHANGED <<cursor, isSyncing>> /\ (saved'.cursor = saved.cursor \/ saved'.cursor = cursor)
    BY <1>5 DEF Resolution, KeepLocalDelete, KeepLocalUpload, KeepLocalDone, FetchRemote,
       AdoptRemote, KeepBothUpload, KeepBothDone, ResolveFails, Settle, state
  <2>3. FetchInv'
    BY <1>2, <1>5, <2>1, ResolutionFetches DEF Basics
  <2> QED
    BY <1>4, <1>5, <2>1, <2>2, <2>3
<1>6. ASSUME NEW n \in Name, World(n), Next PROVE Basics'
  <2>1. RestOK' /\ CopyInv' /\ UNCHANGED run
    BY <1>6, WorldRest DEF Basics
  <2>2. UNCHANGED <<cursor, saved, isSyncing>>
    BY <1>6 DEF World, UserWrite, UserRemove, DevicePut, DeviceDrop, KeepLocal, KeepRemote,
       KeepBoth, KeepBothRefused, state
  <2>3. FetchInv'
    BY <1>2, <1>6, <2>1, WorldFetches DEF Basics
  <2> QED
    BY <1>4, <1>6, <2>1, <2>2, <2>3
<1>7. ASSUME Restart, Next PROVE Basics'
  <2>1. /\ UNCHANGED <<disk, server, saved, marks>> /\ moves' = moves + 1
        /\ cursor' = saved.cursor /\ entries' = saved.entries /\ isSyncing' = FALSE
        /\ conflicts' = [n \in Name |-> 0] /\ pending' = {}
        /\ run' = [t \in Trigger |-> IdleRun] /\ resolve' = [n \in Name |-> IdleResolve]
    BY <1>7 DEF Restart, Move
  <2>2. TypeOK'
    <3>1. isSyncing' \in BOOLEAN
      BY <2>1, Zenon
    <3> QED
      BY <1>2, <1>7, <2>1, <3>1, Shapes DEF Basics, TypeOK, marks
  <2>3. PlanInv' /\ SingleFlight' /\ CopyInv' /\ FetchInv'
    BY <2>1, Shapes DEF PlanInv, Planned, Sending, SingleFlight, CopyInv, Copying, FetchInv
  <2>4. CursorInv'
    BY <2>1, Shapes DEF Basics, TypeOK, ServerTypeOK, CursorInv, Reported, server
  <2> QED
    BY <1>2, <1>7, <2>2, <2>3, <2>4 DEF Basics
<1> QED
  BY <1>1, <1>3, <1>5, <1>6, <1>7 DEF Next

\* In every reachable state the variables have their types, at most one run is
\* under way, and the cursor never runs ahead of the server.
THEOREM TypesCorrect == Spec => [](TypeOK /\ SingleFlight /\ CursorInv)
<1>1. Spec => []Basics
  BY BasicsInit, BasicsNext, PTL DEF Spec
<1>2. Basics => TypeOK /\ SingleFlight /\ CursorInv
  BY DEF Basics
<1> QED
  BY <1>1, <1>2, PTL

-----------------------------------------------------------------------------
(* No download skipped, no conflict acted on *)

\* What the server reported and the run lacks is downloaded or still to come.
DownloadInv ==
  \A t \in Trigger : run[t].pc \in Reported => \A r \in rows :
    /\ r.version > cursor /\ r.version <= run[t].newVersion
    /\ run[t].remote[r.name] = r.version /\ run[t].scan[r.name] = NoFile
    => \/ r.name \in run[t].downloaded
       \/ [name |-> r.name, version |-> r.version, action |-> "download"] \in run[t].changed

\* A conflict shown is open, and left alone by the run that acts.
ConflictInv ==
  /\ pending \subseteq OpenConflicts
  /\ \A t \in Trigger : run[t].pc \in {"act", "fetched"} \cup Applied => pending \subseteq run[t].conflicted

LEMMA ReconcileReported ==
  ASSUME Basics, DownloadInv, ConflictInv, NEW t \in Trigger, Reconcile(t) \/ RunFails(t)
  PROVE  DownloadInv' /\ ConflictInv'
<1>1. TypeOK /\ \A u \in Trigger \ {t} : run'[u].pc = "idle"
  BY FlightSteps DEF Basics
<1>2. ASSUME run'[t].pc \in {"idle", "list", "diff"}, UNCHANGED <<conflicts, pending>>
      PROVE  DownloadInv' /\ ConflictInv'
  BY <1>1, <1>2 DEF DownloadInv, ConflictInv, Reported, Applied, OpenConflicts
<1>3. CASE Begin(t) \/ List(t) \/ UploadThrows(t) \/ Finish(t) \/ RunFails(t)
           \/ (Download(t) /\ EndRun(t))
  BY <1>1, <1>2, <1>3, BeginFields
  DEF Begin, List, UploadThrows, Finish, RunFails, Download, watch, marks
<1>4. CASE Diff(t)
  <2>1. /\ run'[t].pc = "reply" /\ run'[t].remote = run[t].remote
        /\ run'[t].scan = run[t].scan
        /\ run'[t].changed = ChangeActions(rows, cursor, run[t].scan)
        /\ UNCHANGED <<rows, cursor, conflicts, pending>>
    BY <1>1, <1>4, BeginFields DEF Diff, HeldScan, watch, server, state
  <2>2. ASSUME NEW r \in rows, r.version > cursor, run[t].scan[r.name] = NoFile
        PROVE  [name |-> r.name, version |-> r.version, action |-> "download"]
                 \in ChangeActions(rows, cursor, run[t].scan)
    <3>1. r.content # NoFile
      BY <1>1, SyncDiffAssumption DEF TypeOK, ServerTypeOK, Row
    <3> QED
      BY <2>2, <3>1 DEF ChangeActions, Changed
  <2>3. DownloadInv'
    BY <1>1, <2>1, <2>2 DEF DownloadInv, Reported
  <2>4. ConflictInv'
    BY <1>1, <2>1 DEF ConflictInv, OpenConflicts, Applied
  <2> QED
    BY <2>3, <2>4
<1>5. CASE Reply(t)
  <2>1. /\ run'[t].pc = "act" /\ HeldReport(t) /\ run'[t].conflicted = OpenConflicts
        /\ run'[t].downloaded = run[t].downloaded /\ run'[t].changed = run[t].changed
        /\ run[t].pc = "reply" /\ UNCHANGED <<rows, cursor, conflicts, pending>>
    BY <1>1, <1>5, BeginFields DEF Reply, watch, server, state
  <2>2. DownloadInv'
    BY <1>1, <2>1 DEF DownloadInv, Reported, HeldReport
  <2>3. ConflictInv'
    BY <1>1, <2>1 DEF ConflictInv, OpenConflicts, Applied
  <2> QED
    BY <2>2, <2>3
<1>6. ASSUME HeldReport(t), run[t].pc \in {"act", "fetched"}, run'[t].pc = "act", UNCHANGED <<rows, cursor>>,
             run'[t].changed = run[t].changed \ {NextAction(t)},
             run[t].downloaded \subseteq run'[t].downloaded,
             NextAction(t).action = "download"
               => \/ NextAction(t).name \in run'[t].downloaded
                  \/ run[t].remote[NextAction(t).name] = 0
      PROVE  DownloadInv'
  <2>1. ASSUME NEW r \in rows, r.version > cursor, r.version <= run[t].newVersion,
               run[t].remote[r.name] = r.version, run[t].scan[r.name] = NoFile
        PROVE  \/ r.name \in run'[t].downloaded
               \/ [name |-> r.name, version |-> r.version, action |-> "download"]
                    \in run'[t].changed
    <3> DEFINE a == [name |-> r.name, version |-> r.version, action |-> "download"]
    <3>1. r.name \in run[t].downloaded \/ a \in run[t].changed
      BY <1>6, <2>1 DEF DownloadInv, Reported
    <3>2. r.version # 0
      BY <1>1, <2>1 DEF Basics, ServerInv, TypeOK, ServerTypeOK
    <3>3. a = NextAction(t) => r.name \in run'[t].downloaded
      BY <1>6, <2>1, <3>2
    <3> QED
      BY <1>6, <3>1, <3>3
  <2> QED
    BY <1>1, <1>6, <2>1 DEF DownloadInv, HeldReport, Reported
<1>fetch. CASE Download(t) /\ ~EndRun(t)
  <2>1. /\ HeldActions(t) /\ run[t].pc = "act" /\ run'[t].pc = "fetched"
        /\ run'[t].changed = run[t].changed
        /\ UNCHANGED <<rows, cursor, conflicts, pending>>
    BY <1>1, <1>fetch, ActionFields DEF Download, Acting, server, state, watch
  <2>2. DownloadInv'
    BY <1>1, <2>1 DEF DownloadInv, Reported, HeldActions, HeldReport
  <2>3. ConflictInv'
    BY <1>1, <2>1 DEF ConflictInv, OpenConflicts, HeldActions, Applied
  <2> QED
    BY <2>2, <2>3
<1>7. CASE Downloaded(t)
  <2>1. /\ HeldReport(t) /\ run[t].pc = "fetched" /\ run'[t].pc = "act"
        /\ run'[t].changed = run[t].changed \ {NextAction(t)}
        /\ run'[t].conflicted = run[t].conflicted
        /\ run'[t].downloaded = run[t].downloaded \cup {NextAction(t).name}
        /\ UNCHANGED <<rows, cursor, conflicts, pending>>
    BY <1>1, <1>7, ActionFields DEF Downloaded, Remaining, server
  <2>2. DownloadInv'
    BY <1>6, <2>1
  <2>3. ConflictInv'
    BY <1>1, <2>1 DEF ConflictInv, OpenConflicts, Applied
  <2> QED
    BY <2>2, <2>3
<1>8. CASE PassOver(t)
  <2>1. /\ HeldActions(t) /\ run[t].pc = "act" /\ run'[t].pc = "act"
        /\ run'[t].changed = run[t].changed \ {NextAction(t)}
        /\ run[t].remote[NextAction(t).name] = 0
        /\ UNCHANGED <<rows, cursor, conflicts, pending>>
    BY <1>1, <1>8, ActionFields DEF PassOver, Acting, Remaining, server, state, watch
  <2>2. DownloadInv'
    BY <1>6, <2>1 DEF HeldActions
  <2>3. ConflictInv'
    BY <1>1, <2>1 DEF ConflictInv, OpenConflicts, HeldActions, Applied
  <2> QED
    BY <2>2, <2>3
<1>9. CASE RecordConflict(t)
  <2>1. /\ HeldReport(t) /\ run[t].pc = "act" /\ run'[t].pc = "act"
        /\ run'[t].changed = run[t].changed \ {NextAction(t)}
        /\ run'[t].downloaded = run[t].downloaded
        /\ run'[t].conflicted = run[t].conflicted \cup {NextAction(t).name}
        /\ NextAction(t).action = "conflict"
        /\ UNCHANGED <<rows, cursor>>
    BY <1>1, <1>9, ActionFields DEF RecordConflict, Acting, Remaining, server, state
  <2>2. DownloadInv'
    BY <1>6, <2>1
  <2>3. PICK id : /\ id # 0 /\ conflicts' = [conflicts EXCEPT ![NextAction(t).name] = id]
                  /\ pending' = pending \cup {NextAction(t).name}
    BY <1>9 DEF RecordConflict
  <2>4. NextAction(t).name \in Name
    BY <1>1, <1>9, NextOfReport DEF RecordConflict, Acting, Action
  <2>5. pending' \subseteq OpenConflicts'
    BY <1>1, <2>3, <2>4 DEF ConflictInv, OpenConflicts, TypeOK
  <2>6. pending' \subseteq run'[t].conflicted
    BY <2>1, <2>3 DEF ConflictInv
  <2>7. ConflictInv'
    BY <1>1, <2>5, <2>6 DEF ConflictInv, Applied
  <2> QED
    BY <2>2, <2>7
<1>10. CASE ApplyDeletions(t) \/ UploadNext(t) \/ Replace(t) \/ Upload(t) \/ Uploaded(t)
            \/ EndUploads(t) \/ RemoveRemote(t)
  <2>1. HeldActions(t) /\ run'[t].pc \in Applied
    BY <1>1, <1>10, ActionFields, UploadFields DEF Applied
  <2>2. run[t].pc \in {"act"} \cup Applied /\ UNCHANGED <<conflicts, pending>>
    BY <1>10 DEF ApplyDeletions, UploadNext, Replace, Upload, Uploaded, EndUploads, RemoveRemote,
       Applied, watch
  <2>3. DownloadInv'
    BY <1>1, <2>1 DEF DownloadInv, Reported, Applied
  <2>4. ConflictInv'
    BY <1>1, <2>1, <2>2 DEF ConflictInv, OpenConflicts, Applied, HeldActions
  <2> QED
    BY <2>3, <2>4
<1> QED
  BY <1>3, <1>4, <1>5, <1>7, <1>8, <1>9, <1>10, <1>fetch DEF Reconcile

LEMMA ReportedNext ==
  Basics /\ DownloadInv /\ ConflictInv /\ [Next]_vars => DownloadInv' /\ ConflictInv'
<1> SUFFICES ASSUME Basics, DownloadInv, ConflictInv, [Next]_vars
             PROVE  DownloadInv' /\ ConflictInv'
  OBVIOUS
<1>1. CASE UNCHANGED vars
  BY <1>1 DEF vars, DownloadInv, ConflictInv, OpenConflicts
<1>2. Next => Advances /\ clock \in Nat /\ rows \subseteq Row /\ rows' \subseteq Row
  BY NextServed, ServerSteps DEF Basics, TypeOK, ServerTypeOK
<1>3. ASSUME Next, UNCHANGED <<run, cursor>> PROVE DownloadInv'
  <2>1. ASSUME NEW t \in Trigger, run[t].pc \in Reported, NEW r \in rows',
               r.version <= run[t].newVersion
        PROVE  r \in rows
    <3>1. run[t].newVersion <= clock /\ run[t].newVersion \in Nat
      BY <2>1 DEF Basics, CursorInv, Reported, TypeOK, Run
    <3> QED
      BY <1>2, <1>3, <2>1, <3>1 DEF Advances, Row
  <2> QED
    BY <1>3, <2>1 DEF DownloadInv
<1>4. CASE \E t \in Trigger : Reconcile(t) \/ RunFails(t)
  BY <1>4, ReconcileReported
<1>5. ASSUME NEW n \in Name, Resolution(n) PROVE DownloadInv' /\ ConflictInv'
  <2>1. UNCHANGED <<run, cursor>>
    BY <1>5 DEF Resolution, KeepLocalDelete, KeepLocalUpload, KeepLocalDone, FetchRemote,
       AdoptRemote, KeepBothUpload, KeepBothDone, ResolveFails, state
  <2>2. \/ UNCHANGED <<conflicts, pending>>
        \/ conflicts' = [conflicts EXCEPT ![n] = 0] /\ pending' = pending \ {n}
    BY <1>5 DEF Resolution, KeepLocalDelete, KeepLocalUpload, KeepLocalDone, FetchRemote,
       AdoptRemote, KeepBothUpload, KeepBothDone, ResolveFails, Settle, watch
  <2>3. ConflictInv'
    BY <2>1, <2>2 DEF ConflictInv, OpenConflicts, Basics, TypeOK
  <2> QED
    BY <1>3, <1>5, <2>1, <2>3 DEF Next
<1>6. ASSUME NEW n \in Name, World(n) PROVE DownloadInv' /\ ConflictInv'
  <2>1. UNCHANGED <<run, cursor, conflicts, pending>>
    BY <1>6 DEF World, UserWrite, UserRemove, DevicePut, DeviceDrop, KeepLocal, KeepRemote,
       KeepBoth, KeepBothRefused, state
  <2> QED
    BY <1>3, <1>6, <2>1 DEF Next, ConflictInv, OpenConflicts
<1>7. CASE Restart
  BY <1>7, Shapes DEF Restart, DownloadInv, ConflictInv, Reported, Applied
<1> QED
  BY <1>1, <1>4, <1>5, <1>6, <1>7 DEF Next

LEMMA OnlyRunsStep ==
  ASSUME NEW n \in Name, Resolution(n) \/ World(n)
  PROVE  UNCHANGED <<run, cursor, isSyncing>>
BY DEF Resolution, KeepLocalDelete, KeepLocalUpload, KeepLocalDone, FetchRemote, AdoptRemote,
   KeepBothUpload, KeepBothDone, ResolveFails, World, UserWrite, UserRemove, DevicePut,
   DeviceDrop, KeepLocal, KeepRemote, KeepBoth, KeepBothRefused, StartResolve, state

LEMMA ReportedAlways == Spec => [](Basics /\ DownloadInv /\ ConflictInv)
<1>1. Init => DownloadInv /\ ConflictInv
  BY Shapes DEF Init, DownloadInv, ConflictInv, Reported, Applied
<1> QED
  BY <1>1, BasicsInit, BasicsNext, ReportedNext, PTL DEF Spec

\* A run that moves the cursor past a file it had seen in the listing and lacked
\* has downloaded it: what ApplyDeletions leaves behind was not worth fetching.
THEOREM NoDownloadSkipped == Spec => DownloadsNotSkipped
<1> DEFINE P == \A t \in Trigger : run[t].pc = "act" /\ run'[t].pc = "uploads" =>
                  \A r \in rows :
                    /\ r.version \in (cursor + 1)..cursor'
                    /\ run[t].remote[r.name] = r.version
                    /\ run[t].scan[r.name] = NoFile
                    => r.name \in run[t].downloaded
<1>1. Basics /\ DownloadInv /\ ConflictInv /\ [Next]_vars => [P]_vars
  <2> SUFFICES ASSUME Basics, DownloadInv, Next,
                      NEW t \in Trigger, run[t].pc = "act", run'[t].pc = "uploads",
                      NEW r \in rows, r.version \in (cursor + 1)..cursor',
                      run[t].remote[r.name] = r.version, run[t].scan[r.name] = NoFile
               PROVE  r.name \in run[t].downloaded
    OBVIOUS
  <2>1. TypeOK
    BY DEF Basics
  <2>2. PICK u \in Trigger : Reconcile(u) \/ RunFails(u)
    <3>1. Restart => run'[t].pc = "idle"
      BY Shapes DEF Restart
    <3>2. (\E n \in Name : Resolution(n) \/ World(n)) => UNCHANGED run
      BY OnlyRunsStep
    <3> QED
      BY <3>1, <3>2 DEF Next
  <2>3. u = t
    BY <2>2, FlightSteps DEF Basics
  <2>4. ApplyDeletions(t)
    BY <2>1, <2>2, <2>3, BeginFields, ActionFields
    DEF Reconcile, RunFails, Begin, List, Diff, Reply, Download, UploadNext, Replace, Upload,
        UploadThrows, Uploaded, EndUploads, RemoveRemote, Finish
  <2>5. cursor' = run[t].newVersion /\ run[t].changed = {}
    BY <2>4 DEF ApplyDeletions
  <2>6. /\ cursor \in Nat /\ run[t].newVersion \in Nat /\ r.version \in Nat
    BY <2>1 DEF TypeOK, Run, ServerTypeOK, Row
  <2>7. r.version > cursor /\ r.version <= run[t].newVersion
    BY <2>5, <2>6
  <2>8. \/ r.name \in run[t].downloaded
        \/ [name |-> r.name, version |-> r.version, action |-> "download"] \in run[t].changed
    BY <2>7 DEF DownloadInv, Reported
  <2> QED
    BY <2>5, <2>8
<1>2. Spec => [][P]_vars
  BY <1>1, ReportedAlways, PTL DEF Spec
<1> QED
  BY <1>2 DEF DownloadsNotSkipped

\* A run never uploads, replaces or deletes a file whose conflict is still shown:
\* a resolution running beside it included.
THEOREM ConflictsAreLeftAlone == Spec => ConflictsWait
<1> DEFINE P == rows' # rows => \A t \in Trigger :
                  /\ run[t].pc \in {"replace", "upload"} /\ run'[t] # run[t]
                       => run[t].name \notin pending
                  /\ Handled(t) \cap pending = {}
<1>1. Basics /\ DownloadInv /\ ConflictInv /\ [Next]_vars => [P]_vars
  <2> SUFFICES ASSUME Basics, ConflictInv, NEW t \in Trigger
               PROVE  /\ run[t].pc \in {"replace", "upload"} => run[t].name \notin pending
                      /\ Handled(t) \cap pending = {}
    OBVIOUS
  <2>1. Planned(run[t])
    BY DEF Basics, PlanInv
  <2>2. run[t].pc \in Applied => pending \subseteq run[t].conflicted
    BY DEF ConflictInv
  <2> QED
    BY <2>1, <2>2 DEF Planned, Sending, ToSend, Missing, Applied, Handled
<1>2. Spec => [][P]_vars
  BY <1>1, ReportedAlways, PTL DEF Spec
<1> QED
  BY <1>2 DEF ConflictsWait

-----------------------------------------------------------------------------
(* No run makes a ghost entry *)

\* What was deleted under a name since a version.
Buried(n, v) == \E g \in gone : g.name = n /\ g.version > v

\* Deletions a run is about to pass are in its report; what it has fetched or
\* uploaded was deleted, if at all, after the cursor.
GhostInv ==
  \A t \in Trigger :
    /\ run[t].pc \in Reported => \A g \in gone :
         g.version > cursor /\ g.version <= run[t].newVersion => g.name \in run[t].deleted
    /\ run[t].pc = "uploaded" => run[t].id > cursor
    /\ run[t].pc = "fetched" => \A g \in gone : g.id = run[t].id => g.version > cursor

LEMMA Numbers ==
  ASSUME Basics
  PROVE  /\ TypeOK /\ ServerInv /\ SingleFlight /\ CursorInv
         /\ cursor \in Nat /\ saved.cursor \in Nat /\ clock \in Nat
         /\ saved.cursor <= cursor /\ cursor <= clock
         /\ entries \in [Name -> Entry] /\ saved.entries \in [Name -> Entry] /\ disk \in Manifest
         /\ \A g \in gone : /\ g.id \in Nat /\ g.version \in Nat /\ g.name \in Name
                            /\ 1 <= g.id /\ g.id < g.version
         /\ \A t \in Trigger : /\ run[t].newVersion \in Nat /\ run[t].id \in Nat
                               /\ run[t].name \in Name /\ run[t].left \subseteq Name
                               /\ run[t].deleted \subseteq Name /\ run[t].scan \in Manifest
                               /\ run[t].remote \in [Name -> Nat]
                               /\ run[t].pc \in Reported => run[t].newVersion <= clock
<1>1. TypeOK /\ ServerInv /\ SingleFlight /\ CursorInv
  BY DEF Basics
<1>2. /\ cursor \in Nat /\ saved.cursor \in Nat /\ clock \in Nat
      /\ entries \in [Name -> Entry] /\ saved.entries \in [Name -> Entry] /\ disk \in Manifest
  BY <1>1 DEF TypeOK, ServerTypeOK
<1>3. \A g \in gone : /\ g.id \in Nat /\ g.version \in Nat /\ g.name \in Name
                      /\ 1 <= g.id /\ g.id < g.version
  BY <1>1 DEF TypeOK, ServerTypeOK, Tombstone, ServerInv
<1>4. \A t \in Trigger : /\ run[t].newVersion \in Nat /\ run[t].id \in Nat
                         /\ run[t].name \in Name /\ run[t].left \subseteq Name
                         /\ run[t].deleted \subseteq Name /\ run[t].scan \in Manifest
                         /\ run[t].remote \in [Name -> Nat]
  BY <1>1 DEF TypeOK, Run
<1> QED
  BY <1>1, <1>2, <1>3, <1>4 DEF CursorInv

\* A deletion of this step is later than all versions there were.
LEMMA NewlyGone ==
  ASSUME Basics, Advances, Basics'
  PROVE  \A g \in gone' : g.version \in Nat /\ g.name \in Name /\ (g \in gone \/ g.version > clock)
<1>1. \A g \in gone' : g.version \in Nat /\ g.name \in Name
  BY DEF Basics, TypeOK, ServerTypeOK, Tombstone
<1> QED
  BY <1>1 DEF Advances

LEMMA NextAdvances == Basics /\ Next => Advances
BY NextServed, ServerSteps DEF Basics, TypeOK

LEMMA ReconcileGhosts ==
  ASSUME Basics, GhostInv, Advances, Basics', NEW t \in Trigger, Reconcile(t) \/ RunFails(t)
  PROVE  GhostInv'
<1>1. TypeOK /\ \A u \in Trigger \ {t} : run'[u].pc = "idle"
  BY FlightSteps DEF Basics
<1>2. /\ cursor \in Nat /\ clock \in Nat /\ cursor <= clock /\ run[t].newVersion \in Nat
      /\ run[t].pc \in Reported => run[t].newVersion <= clock
      /\ \A g \in gone' : g.version \in Nat /\ (g \in gone \/ g.version > clock)
  BY Numbers, NewlyGone
<1>3. ASSUME run'[t].pc \in Reported => \A g \in gone' :
               g.version > cursor' /\ g.version <= run'[t].newVersion => g.name \in run'[t].deleted,
             run'[t].pc = "uploaded" => run'[t].id > cursor',
             run'[t].pc = "fetched" => \A g \in gone' : g.id = run'[t].id => g.version > cursor'
      PROVE  GhostInv'
  BY <1>1, <1>3 DEF GhostInv, Reported
<1>4. CASE run'[t].pc \notin Reported \cup {"uploaded"}
  BY <1>3, <1>4 DEF Reported
<1>5. CASE EndRun(t) \/ Begin(t) \/ List(t)
  BY <1>1, <1>4, <1>5, BeginFields DEF Reported
<1>6. CASE Diff(t)
  <2>1. /\ run'[t].pc = "reply" /\ run'[t].deleted = DeleteActions(gone, cursor)
        /\ UNCHANGED <<cursor, gone>>
    BY <1>1, <1>6, BeginFields DEF Diff, state, server
  <2>2. \A g \in gone : g.version > cursor => g.name \in DeleteActions(gone, cursor)
    BY DEF DeleteActions, Deleted
  <2> QED
    BY <1>3, <2>1, <2>2
<1>7. CASE Reply(t) \/ Downloaded(t) \/ PassOver(t) \/ RecordConflict(t)
  <2>1. /\ HeldReport(t) /\ run[t].pc \in Reported /\ run'[t].pc = "act"
        /\ UNCHANGED <<cursor, gone>>
    BY <1>1, <1>7, BeginFields, ActionFields
    DEF Reply, Downloaded, PassOver, RecordConflict, Acting, Reported, HeldActions, state, server
  <2> QED
    BY <1>3, <2>1 DEF HeldReport, GhostInv
<1>8. CASE Download(t) /\ ~EndRun(t)
  <2>1. /\ HeldReport(t) /\ run[t].pc \in Reported /\ run'[t].pc = "fetched"
        /\ UNCHANGED <<cursor, gone>> /\ run'[t].id = run[t].remote[NextAction(t).name]
        /\ Exists(run'[t].id)
    BY <1>1, <1>8, ActionFields DEF Download, Acting, Reported, HeldActions, state, server
  <2>2. \A g \in gone : g.id # run'[t].id
    BY <2>1 DEF Exists, Basics, ServerInv
  <2> QED
    BY <1>3, <2>1, <2>2 DEF HeldReport, GhostInv
<1>9. CASE ApplyDeletions(t)
  BY <1>1, <1>4, <1>9, ActionFields DEF Reported
<1>10. CASE UploadNext(t) \/ Replace(t) \/ EndUploads(t) \/ Uploaded(t) \/ RemoveRemote(t)
  BY <1>1, <1>4, <1>10, UploadFields DEF Reported
<1>11. CASE Upload(t)
  <2>1. run'[t].pc = "uploaded" /\ run'[t].id = clock + 1 /\ UNCHANGED cursor
    BY <1>1, <1>11, UploadFields DEF Upload, state
  <2>2. run'[t].id > cursor'
    BY <1>2, <2>1
  <2> QED
    BY <1>3, <2>1, <2>2 DEF Reported
<1> QED
  BY <1>5, <1>6, <1>7, <1>8, <1>9, <1>10, <1>11 DEF Reconcile, UploadThrows, Finish, RunFails

LEMMA GhostNext ==
  ASSUME Basics, Basics', GhostInv, [Next]_vars
  PROVE  GhostInv'
<1>1. CASE UNCHANGED vars
  BY <1>1 DEF vars, GhostInv
<1>2. CASE \E t \in Trigger : Reconcile(t) \/ RunFails(t)
  BY <1>2, ReconcileGhosts, NextAdvances DEF Next
<1>3. ASSUME NEW n \in Name, Resolution(n) \/ World(n) PROVE GhostInv'
  <2>1. UNCHANGED <<run, cursor>> /\ Advances
    BY <1>3, OnlyRunsStep, NextAdvances DEF Next
  <2>2. ASSUME NEW t \in Trigger, NEW g \in gone'
        PROVE  \/ g \in gone
               \/ g.version > cursor /\ (run[t].pc \in Reported => ~(g.version <= run[t].newVersion))
    <3>1. g.version \in Nat /\ (g \in gone \/ g.version > clock)
      BY <2>1, NewlyGone
    <3>2. /\ cursor \in Nat /\ clock \in Nat /\ cursor <= clock /\ run[t].newVersion \in Nat
          /\ run[t].pc \in Reported => run[t].newVersion <= clock
      BY Numbers
    <3> QED
      BY <3>1, <3>2
  <2> QED
    BY <2>1, <2>2 DEF GhostInv
<1>4. CASE Restart
  BY <1>4, Shapes DEF Restart, GhostInv, Reported
<1> QED
  BY <1>1, <1>2, <1>3, <1>4 DEF Next

LEMMA GhostAlways == Spec => [](Basics /\ GhostInv)
<1>1. Init => GhostInv
  BY Shapes DEF Init, GhostInv, Reported
<1>2. Basics /\ Basics' /\ GhostInv /\ [Next]_vars => GhostInv'
  BY GhostNext
<1> QED
  BY <1>1, <1>2, BasicsInit, BasicsNext, PTL DEF Spec

\* A ghost of the entries in memory, or of those saved.
Haunts(graves, ents, v, n) ==
  \E g \in graves : g.name = n /\ g.version <= v /\ ents[n].id = g.id

\* Whatever step a run is at, and whatever another device deletes beside it, it
\* does not come to take a row for synced whose deletion the cursor has passed;
\* nor does a restart.
THEOREM NoGhosts == Spec => NoGhostEntries
<1> DEFINE P == (\E t \in Trigger : run'[t] # run[t]) => Ghosts' \subseteq Ghosts
<1>1. ASSUME Basics, Basics', GhostInv, Next, NEW t \in Trigger, Reconcile(t) \/ RunFails(t)
      PROVE  Ghosts' \subseteq Ghosts
  <2>1. TypeOK /\ Advances
    BY <1>1, NextAdvances DEF Basics
  <2>2. /\ cursor \in Nat /\ saved.cursor \in Nat /\ clock \in Nat
        /\ saved.cursor <= cursor /\ cursor <= clock
        /\ entries \in [Name -> Entry] /\ run[t].newVersion \in Nat /\ run[t].id \in Nat
        /\ run[t].name \in Name /\ run[t].left \subseteq Name
        /\ \A g \in gone : g.id \in Nat /\ g.version \in Nat /\ 1 <= g.id /\ g.id < g.version
    BY <1>1, Numbers
  <2>3. \A g \in gone' : g.version <= cursor => g \in gone
    BY <1>1, <2>1, <2>2, NewlyGone
  <2>4. \A g \in gone' : g.version <= saved.cursor => g \in gone
    BY <1>1, <2>1, <2>2, NewlyGone
  <2>5. ASSUME \A n \in Name : Haunts(gone', entries', cursor', n) => n \in Ghosts,
               \/ saved' = saved
               \/ saved'.cursor = cursor' /\ saved'.entries = entries'
        PROVE  Ghosts' \subseteq Ghosts
    BY <2>4, <2>5 DEF Ghosts, Haunts
  <2>6. ASSUME NEW n \in Name, entries'[n] = entries[n], cursor' = cursor,
               Haunts(gone', entries', cursor', n)
        PROVE  n \in Ghosts
    BY <2>3, <2>6 DEF Ghosts, Haunts
  <2>7. CASE UNCHANGED <<entries, cursor, saved>>
    BY <2>5, <2>6, <2>7
  <2>8. CASE Begin(t) \/ List(t) \/ Diff(t) \/ Reply(t) \/ Download(t) \/ PassOver(t)
             \/ RecordConflict(t) \/ UploadNext(t) \/ Replace(t) \/ Upload(t) \/ UploadThrows(t)
             \/ EndUploads(t) \/ RunFails(t)
    BY <2>7, <2>8
    DEF Begin, List, Diff, Reply, Download, PassOver, RecordConflict, UploadNext, Replace, Upload,
        UploadThrows, EndUploads, RunFails, state
  <2>9. ASSUME NEW k \in Name, \A n \in Name \ {k} : entries'[n] = entries[n],
               cursor' = cursor, saved' = saved,
               \A g \in gone' : g.version <= cursor => entries'[k].id # g.id
        PROVE  Ghosts' \subseteq Ghosts
    <3>1. ~Haunts(gone', entries', cursor', k)
      BY <2>9 DEF Haunts
    <3>2. ASSUME NEW n, Haunts(gone', entries', cursor', n) PROVE n \in Name
      <4>1. \A g \in gone' : g.name \in Name
        BY <1>1, <2>1, NewlyGone
      <4> QED
        BY <3>2, <4>1 DEF Haunts
    <3> QED
      BY <2>5, <2>6, <2>9, <3>1, <3>2
  <2>10. CASE Downloaded(t)
    <3> DEFINE e == [id |-> run[t].id, content |-> ContentOf(run[t].id)]
    <3>1. /\ entries' = [entries EXCEPT ![NextAction(t).name] = e]
          /\ UNCHANGED <<cursor, saved, gone>> /\ run[t].pc = "fetched"
      BY <2>10 DEF Downloaded, server
    <3>2. NextAction(t).name \in Name
      BY <1>1, <2>1, <3>1, NextOfReport DEF Basics, FetchInv, Action
    <3>3. \A g \in gone : g.version <= cursor => run[t].id # g.id
      BY <1>1, <2>2, <3>1 DEF GhostInv
    <3>4. e.id = run[t].id
      OBVIOUS
    <3> HIDE DEF e
    <3>5. /\ \A n \in Name \ {NextAction(t).name} : entries'[n] = entries[n]
          /\ entries'[NextAction(t).name].id = run[t].id
      BY <2>2, <3>1, <3>2, <3>4
    <3> QED
      BY <2>9, <3>1, <3>2, <3>3, <3>5
  <2>11. CASE Uploaded(t)
    <3> DEFINE e == [id |-> run[t].id, content |-> run[t].scan[run[t].name]]
    <3>1. /\ entries' = [entries EXCEPT ![run[t].name] = e]
          /\ UNCHANGED <<cursor, saved, gone>> /\ run[t].pc = "uploaded"
      BY <2>11 DEF Uploaded, server
    <3>2. \A g \in gone : g.version <= cursor => run[t].id # g.id
      BY <1>1, <2>2, <3>1 DEF GhostInv
    <3>3. e.id = run[t].id
      OBVIOUS
    <3> HIDE DEF e
    <3>4. /\ \A n \in Name \ {run[t].name} : entries'[n] = entries[n]
          /\ entries'[run[t].name].id = run[t].id
      BY <2>2, <3>1, <3>3
    <3> QED
      BY <2>2, <2>9, <3>1, <3>2, <3>4
  <2>12. CASE RemoveRemote(t)
    <3>1. PICK n \in Name : entries' = [entries EXCEPT ![n] = Unknown] \/ entries' = entries
      BY <2>2, <2>12 DEF RemoveRemote
    <3>2. UNCHANGED <<cursor, saved>> /\ Unknown.id = 0
      BY <2>12 DEF RemoveRemote, Unknown
    <3>3. CASE entries' = [entries EXCEPT ![n] = Unknown]
      <4>1. (\A m \in Name \ {n} : entries'[m] = entries[m]) /\ entries'[n].id = 0
        BY <2>2, <3>2, <3>3
      <4>2. \A g \in gone' : g.version <= cursor => entries'[n].id # g.id
        BY <2>2, <2>3, <4>1
      <4> QED
        BY <2>9, <3>2, <4>1, <4>2
    <3> QED
      BY <2>7, <3>1, <3>2, <3>3
  <2>13. CASE ApplyDeletions(t)
    <3>1. /\ entries' = [n \in Name |-> IF n \in run[t].deleted THEN Unknown ELSE entries[n]]
          /\ cursor' = run[t].newVersion /\ UNCHANGED <<saved, gone>> /\ run[t].pc = "act"
      BY <2>13 DEF ApplyDeletions, server
    <3>2. ASSUME NEW n \in Name, NEW g \in gone, g.name = n, g.version <= cursor',
                 entries'[n].id = g.id
          PROVE  n \in Ghosts
      <4>1. n \notin run[t].deleted
        BY <2>2, <3>1, <3>2 DEF Unknown
      <4>2. g.version <= cursor
        BY <1>1, <2>2, <3>1, <3>2, <4>1 DEF GhostInv, Reported
      <4> QED
        BY <3>1, <3>2, <4>1, <4>2 DEF Ghosts
    <3>3. \A n \in Name : Haunts(gone', entries', cursor', n) => n \in Ghosts
      BY <3>1, <3>2 DEF Haunts
    <3> QED
      BY <2>5, <3>1, <3>3
  <2>14. CASE Finish(t)
    <3>1. UNCHANGED <<entries, cursor>> /\ saved'.cursor = cursor /\ saved'.entries = entries
      BY <2>14 DEF Finish, state
    <3> QED
      BY <2>5, <2>6, <3>1
  <2> QED
    BY <1>1, <2>8, <2>10, <2>11, <2>12, <2>13, <2>14 DEF Reconcile
<1>2. ASSUME Restart PROVE Ghosts' \subseteq Ghosts
  <2>1. /\ UNCHANGED <<gone, saved>> /\ cursor' = saved.cursor /\ entries' = saved.entries
    BY <1>2 DEF Restart, server
  <2>2. ASSUME NEW n \in Name, NEW g \in gone', g.name = n,
               \/ g.version <= cursor' /\ entries'[n].id = g.id
               \/ g.version <= saved'.cursor /\ saved'.entries[n].id = g.id
        PROVE  n \in Ghosts
    <3>1. g \in gone /\ g.version <= saved.cursor /\ saved.entries[n].id = g.id
      BY <2>1, <2>2
    <3> QED
      BY <2>2, <3>1 DEF Ghosts
  <2>3. \A n \in Ghosts' : n \in Ghosts
    BY <2>2 DEF Ghosts
  <2> QED
    BY <2>3
<1>3. ASSUME NEW n \in Name, Resolution(n) \/ World(n) PROVE UNCHANGED run
  BY <1>3, OnlyRunsStep
<1>4. Basics /\ Basics' /\ GhostInv /\ [Next]_vars => [P]_vars
  <2> SUFFICES ASSUME Basics, Basics', GhostInv, Next, NEW u \in Trigger, run'[u] # run[u]
               PROVE  Ghosts' \subseteq Ghosts
    OBVIOUS
  <2>1. Restart \/ \E t \in Trigger : Reconcile(t) \/ RunFails(t)
    BY <1>3 DEF Next
  <2> QED
    BY <1>1, <1>2, <2>1
<1>5. Spec => [][P]_vars
  BY <1>4, GhostAlways, BasicsNext, PTL DEF Spec
<1> QED
  BY <1>5 DEF NoGhostEntries


-----------------------------------------------------------------------------
(* What resolutions and the world do beside the runs *)

\* A name a resolution works on while a run is under way is marked, and stays so
\* until a run syncs it.
Apart == \A t \in Trigger : run[t].pc # "idle" => InResolution \subseteq beside

LEMMA WorkedAt ==
  ASSUME NEW n \in Name, NEW m \in WorkedOn(n, resolve[n].pc)
  PROVE  m \in InResolution
BY DEF InResolution

\* A resolution that goes on works on the same names.
LEMMA SameWork ==
  ASSUME TypeOK, NEW n \in Name, \A m \in Name \ {n} : resolve'[m] = resolve[m],
         WorkedOn(n, resolve'[n].pc) \subseteq WorkedOn(n, resolve[n].pc) \cup beside'
  PROVE  InResolution' \subseteq InResolution \cup beside'
<1>1. ASSUME NEW m \in Name, NEW x \in WorkedOn(m, resolve'[m].pc)
      PROVE  x \in InResolution \cup beside'
  <2>1. CASE m = n
    BY <1>1, <2>1, WorkedAt
  <2>2. CASE m # n
    BY <1>1, <2>2, WorkedAt
  <2> QED
    BY <2>1, <2>2
<1>2. InResolution' = UNION {WorkedOn(m, resolve'[m].pc) : m \in Name}
  BY DEF InResolution, WorkedOn
<1> QED
  BY <1>1, <1>2

\* The step of a resolution leaves beside and the runs alone, and concerns one
\* name: it is harmless (A), or an upload (B), or a record of it (C).
Harmless ==
  /\ UNCHANGED <<entries, saved>> /\ touched \subseteq touched' /\ stuck \subseteq stuck'
  /\ beside \subseteq beside' /\ \A n \in Name : disk'[n] # disk[n] => n \in touched'

Uploads(m) ==
  /\ UNCHANGED <<disk, entries, saved>> /\ disk[m] # NoFile /\ Live(rows', m)
  /\ touched \ {m} \subseteq touched' /\ stuck \ {m} \subseteq stuck' /\ beside' = beside

Records(m) ==
  /\ UNCHANGED <<rows, gone>> /\ disk'[m] # NoFile /\ entries'[m] # Unknown
  /\ \A n \in Name \ {m} : disk'[n] = disk[n] /\ entries'[n] = entries[n]
  /\ touched \ {m} \subseteq touched' /\ stuck \ {m} \subseteq stuck' /\ beside' = beside
  /\ \/ saved'.entries = entries' /\ saved'.cursor = cursor'
     \/ UNCHANGED <<saved, disk, touched, stuck>>

\* The server has a file under the name just uploaded, renamed or not.
LEMMA CreatedIsLive ==
  ASSUME NEW n \in Name, NEW c, ServerCreate(n, c)
  PROVE  Live(rows', n)
<1>1. CASE Live(rows, n)
  BY <1>1 DEF ServerCreate, Live
<1>2. CASE ~Live(rows, n)
  <2> DEFINE r == [name |-> n, content |-> c, version |-> clock + 1]
  <2>1. r \in rows' /\ r.name = n
    BY <1>2 DEF ServerCreate, ServerName
  <2> HIDE DEF r
  <2> QED
    BY <2>1 DEF Live
<1> QED
  BY <1>1, <1>2

LEMMA Recorded ==
  ASSUME NEW id, NEW c, c # NoFile
  PROVE  [id |-> id, content |-> c] # Unknown
<1>1. [id |-> id, content |-> c].content # Unknown.content
  BY DEF Unknown
<1> QED
  BY <1>1

LEMMA ResolutionEffects ==
  ASSUME Basics, NEW n \in Name, Resolution(n)
  PROVE  Harmless \/ \E m \in InResolution \cap Name : Uploads(m) \/ Records(m)
<1>1. /\ TypeOK /\ disk \in Manifest /\ entries \in [Name -> Entry]
      /\ resolve \in [Name -> Resolve]
  BY DEF Basics, TypeOK
<1>2. resolve[n].pc # "idle" => n \in InResolution
  BY WorkedAt DEF WorkedOn
<1>3. ASSUME resolve[n].pc \in {"copyUpload", "copyDone", "copyFetch"}
      PROVE  n \in PlainName /\ CopyName[n] \in Name /\ CopyName[n] \in InResolution
  <2>1. n \in PlainName
    BY <1>3 DEF Basics, CopyInv, Copying
  <2>2. CopyName[n] \in Name
    BY <2>1, Copies
  <2>3. CopyName[n] \in WorkedOn(n, resolve[n].pc)
    BY <1>3, <2>1, <2>2 DEF WorkedOn
  <2> QED
    BY <2>1, <2>2, <2>3, WorkedAt
<1>4. CASE KeepLocalDelete(n) \/ FetchRemote(n)
  BY <1>4 DEF KeepLocalDelete, FetchRemote, state, marks, watch, Harmless
<1>5. CASE KeepLocalUpload(n)
  <2>1. Live(rows', n)
    BY <1>5, CreatedIsLive DEF KeepLocalUpload
  <2>2. resolve[n].pc # "idle" /\ Uploads(n)
    BY <1>5, <2>1 DEF KeepLocalUpload, Resolving, SyncedNow, state, Uploads
  <2> QED
    BY <1>2, <2>2
<1>6. CASE KeepBothUpload(n)
  <2>1. CopyName[n] \in Name /\ CopyName[n] \in InResolution
    BY <1>3, <1>6 DEF KeepBothUpload, Resolving
  <2>2. Live(rows', CopyName[n])
    BY <1>6, <2>1, CreatedIsLive DEF KeepBothUpload
  <2>3. Uploads(CopyName[n])
    BY <1>6, <2>2 DEF KeepBothUpload, SyncedNow, state, Uploads
  <2> QED
    BY <2>1, <2>3
<1>7. CASE KeepLocalDone(n)
  <2> DEFINE e == [id |-> resolve[n].created, content |-> disk[n]]
  <2>1. /\ entries' = [entries EXCEPT ![n] = e] /\ disk[n] # NoFile /\ resolve[n].pc # "idle"
        /\ UNCHANGED <<rows, gone, disk, touched, stuck, beside>>
        /\ saved'.entries = entries' /\ saved'.cursor = cursor'
    BY <1>7 DEF KeepLocalDone, Resolving, Settle, server, marks
  <2>2. e # Unknown
    BY <2>1, Recorded
  <2> HIDE DEF e
  <2>3. entries'[n] # Unknown /\ \A m \in Name \ {n} : entries'[m] = entries[m]
    BY <1>1, <2>1, <2>2
  <2>4. Records(n)
    BY <2>1, <2>3 DEF Records
  <2> QED
    BY <1>2, <2>1, <2>4
<1>8. CASE KeepBothDone(n)
  <2> DEFINE e == [id |-> resolve[n].created, content |-> disk[CopyName[n]]]
  <2>1. CopyName[n] \in Name /\ CopyName[n] \in InResolution
    BY <1>3, <1>8 DEF KeepBothDone, Resolving
  <2>2. /\ entries' = [entries EXCEPT ![CopyName[n]] = e] /\ disk[CopyName[n]] # NoFile
        /\ UNCHANGED <<rows, gone, disk, touched, stuck, beside, saved>>
    BY <1>8 DEF KeepBothDone, server, watch, marks
  <2>3. e # Unknown
    BY <2>2, Recorded
  <2> HIDE DEF e
  <2>4. entries'[CopyName[n]] # Unknown /\ \A m \in Name \ {CopyName[n]} : entries'[m] = entries[m]
    BY <1>1, <2>1, <2>2, <2>3
  <2>5. Records(CopyName[n])
    BY <2>2, <2>4 DEF Records
  <2> QED
    BY <2>1, <2>5
<1>9. CASE AdoptRemote(n)
  <2> DEFINE c == ContentOf(resolve[n].id)  e == [id |-> resolve[n].id, content |-> c]
  <2>1. /\ entries' = [entries EXCEPT ![n] = e] /\ disk' = [disk EXCEPT ![n] = c]
        /\ resolve[n].pc \in {"fetched", "copyFetched"}
        /\ UNCHANGED <<rows, gone, beside>>
        /\ touched' = touched \ {n} /\ stuck' = stuck \ {n}
        /\ saved'.entries = entries' /\ saved'.cursor = cursor'
    BY <1>9 DEF AdoptRemote, Resolving, Settle, SyncedNow, server
  <2>2. Kept(rows, gone, resolve[n].id)
    BY <2>1 DEF Basics, FetchInv
  <2>3. c # NoFile
    BY <1>1, <2>2, FetchedContent DEF TypeOK
  <2>4. e # Unknown
    BY <2>3, Recorded
  <2> HIDE DEF e, c
  <2>5. /\ entries'[n] # Unknown /\ disk'[n] # NoFile
        /\ \A m \in Name \ {n} : entries'[m] = entries[m] /\ disk'[m] = disk[m]
    BY <1>1, <2>1, <2>3, <2>4 DEF Manifest
  <2>6. Records(n)
    BY <2>1, <2>5 DEF Records
  <2> QED
    BY <1>2, <2>1, <2>6
<1>10. CASE ResolveFails(n)
  <2>1. UNCHANGED <<entries, saved, stuck, beside>>
    BY <1>10 DEF ResolveFails, state
  <2>2. CASE resolve[n].pc \in {"copyUpload", "copyDone", "copyFetch"}
    <3>1. CopyName[n] \in Name
      BY <1>3, <2>2
    <3>2. disk' = [disk EXCEPT ![CopyName[n]] = NoFile] /\ touched' = touched \cup {CopyName[n]}
      BY <1>10, <2>2 DEF ResolveFails
    <3>3. \A m \in Name : disk'[m] # disk[m] => m \in touched'
      BY <1>1, <3>1, <3>2 DEF Manifest
    <3> QED
      BY <2>1, <3>2, <3>3 DEF Harmless
  <2>3. CASE resolve[n].pc \notin {"copyUpload", "copyDone", "copyFetch"}
    BY <1>10, <2>1, <2>3 DEF ResolveFails, Harmless
  <2> QED
    BY <2>2, <2>3
<1> QED
  BY <1>4, <1>5, <1>6, <1>7, <1>8, <1>9, <1>10 DEF Resolution

LEMMA WorldEffects ==
  ASSUME Basics, NEW n \in Name, World(n)
  PROVE  Harmless
<1>1. disk \in Manifest
  BY DEF Basics, TypeOK
<1>2. UNCHANGED <<entries, saved, stuck>> /\ beside \subseteq beside'
  BY DEF World, UserWrite, UserRemove, DevicePut, DeviceDrop, KeepLocal, KeepRemote, KeepBoth,
     KeepBothRefused, StartResolve, state, marks
<1>3. \/ UNCHANGED <<disk, touched>>
      \/ \E m, f : disk' = [disk EXCEPT ![m] = f] /\ touched' = touched \cup {m}
  BY DEF World, UserWrite, UserRemove, DevicePut, DeviceDrop, KeepLocal, KeepRemote, KeepBoth,
     KeepBothRefused, marks
<1>4. \A m \in Name : disk'[m] # disk[m] => m \in touched'
  BY <1>1, <1>3 DEF Manifest
<1> QED
  BY <1>2, <1>3, <1>4 DEF Harmless

LEMMA ApartNext ==
  ASSUME Basics, Basics', Apart, [Next]_vars
  PROVE  Apart'
<1>1. CASE UNCHANGED vars
  BY <1>1 DEF vars, Apart, InResolution, WorkedOn
<1>2. TypeOK /\ SingleFlight
  BY DEF Basics
<1>3. ASSUME NEW t \in Trigger, Reconcile(t) \/ RunFails(t) PROVE Apart'
  <2>1. UNCHANGED resolve /\ \A u \in Trigger \ {t} : run'[u].pc = "idle"
    BY <1>2, <1>3, RunsKeepResolutions, FlightSteps
  <2>2. InResolution' = InResolution
    BY <2>1 DEF InResolution, WorkedOn
  <2>3. InResolution \subseteq beside' => Apart'
    BY <2>2 DEF Apart
  <2>4. CASE Begin(t)
    BY <2>3, <2>4 DEF Begin
  <2>5. CASE EndRun(t)
    BY <1>2, <2>1, <2>5, BeginFields DEF Apart
  <2>6. run[t].pc # "idle" => InResolution \subseteq beside
    BY DEF Apart
  <2>7. CASE Downloaded(t) \/ Upload(t)
    <3>1. run[t].pc # "idle"
      BY <2>7 DEF Downloaded, Upload
    <3>2. beside' = beside \/ \E n : beside' = beside \ ({n} \ InResolution)
      BY <2>7 DEF Downloaded, Upload, SyncedByRun
    <3> QED
      BY <2>3, <2>6, <3>1, <3>2
  <2>8. CASE List(t) \/ Diff(t) \/ Reply(t) \/ (Download(t) /\ ~EndRun(t)) \/ PassOver(t)
             \/ RecordConflict(t) \/ ApplyDeletions(t) \/ UploadNext(t) \/ Replace(t)
             \/ Uploaded(t) \/ EndUploads(t) \/ RemoveRemote(t)
    <3>1. run[t].pc # "idle" /\ beside' = beside
      BY <2>8 DEF List, Diff, Reply, Download, PassOver, RecordConflict, ApplyDeletions,
         UploadNext, Replace, Uploaded, EndUploads, RemoveRemote, Acting, watch, marks
    <3> QED
      BY <2>3, <2>6, <3>1
  <2> QED
    BY <1>3, <2>4, <2>5, <2>7, <2>8 DEF Reconcile, UploadThrows, Finish, RunFails
<1>4. ASSUME NEW n \in Name, Resolution(n) \/ World(n),
             InResolution' \subseteq InResolution \cup beside' \/ ~isSyncing,
             beside \subseteq beside'
      PROVE  Apart'
  <2>1. UNCHANGED <<run, isSyncing>>
    BY <1>4, OnlyRunsStep
  <2>2. ASSUME NEW t \in Trigger, run[t].pc # "idle" PROVE InResolution' \subseteq beside'
    BY <1>2, <1>4, <2>2 DEF Apart, SingleFlight
  <2> QED
    BY <2>1, <2>2 DEF Apart
<1>5. ASSUME NEW n \in Name, Resolution(n) PROVE Apart'
  <2>1. beside' = beside
    BY <1>5 DEF Resolution, KeepLocalDelete, KeepLocalUpload, KeepLocalDone, FetchRemote,
       AdoptRemote, KeepBothUpload, KeepBothDone, ResolveFails, watch, marks
  <2>2. resolve \in [Name -> Resolve]
    BY <1>2 DEF TypeOK
  <2>3. ASSUME \A m \in Name \ {n} : resolve'[m] = resolve[m],
               WorkedOn(n, resolve'[n].pc) \subseteq WorkedOn(n, resolve[n].pc)
        PROVE  Apart'
    <3>1. InResolution' \subseteq InResolution \cup beside'
      BY <1>2, <2>3, SameWork
    <3> QED
      BY <1>4, <1>5, <2>1, <3>1
  <2>4. ASSUME EndResolve(n) PROVE Apart'
    <3>1. resolve'[n].pc = "idle" /\ \A m \in Name \ {n} : resolve'[m] = resolve[m]
      BY <2>2, <2>4, ResolveSteps
    <3>2. WorkedOn(n, resolve'[n].pc) \subseteq WorkedOn(n, resolve[n].pc)
      BY <3>1 DEF WorkedOn
    <3> QED
      BY <2>3, <3>1, <3>2
  <2>5. ASSUME NEW pc \in ResolveStage, resolve[n].pc # "idle",
               pc \in Copying => resolve[n].pc \in Copying,
               \/ GoResolve(n, pc)
               \/ \E k \in Nat : resolve' = [resolve EXCEPT ![n] = [@ EXCEPT !.pc = pc, !.created = k]]
        PROVE  Apart'
    <3>1. resolve'[n].pc = pc /\ \A m \in Name \ {n} : resolve'[m] = resolve[m]
      <4>1. CASE GoResolve(n, pc)
        BY <2>2, <2>5, <4>1, ResolveSteps
      <4>2. ASSUME NEW k \in Nat,
                   resolve' = [resolve EXCEPT ![n] = [@ EXCEPT !.pc = pc, !.created = k]]
            PROVE  resolve'[n].pc = pc /\ \A m \in Name \ {n} : resolve'[m] = resolve[m]
        BY <2>2, <2>5, <4>2, ResolveSteps
      <4> QED
        BY <2>5, <4>1, <4>2
    <3>2. WorkedOn(n, pc) \subseteq WorkedOn(n, resolve[n].pc)
      BY <2>5 DEF WorkedOn, Copying
    <3> QED
      BY <2>3, <3>1, <3>2
  <2>6. clock + 1 \in Nat
    BY <1>2 DEF TypeOK, ServerTypeOK
  <2>7. CASE KeepLocalDelete(n) \/ KeepBothDone(n) \/ FetchRemote(n)
    BY <2>5, <2>7 DEF KeepLocalDelete, KeepBothDone, FetchRemote, Resolving, Copying, ResolveStage
  <2>8. CASE KeepLocalUpload(n)
    BY <2>5, <2>6, <2>8 DEF KeepLocalUpload, Resolving, Copying, ResolveStage
  <2>9. CASE KeepBothUpload(n)
    BY <2>5, <2>6, <2>9 DEF KeepBothUpload, Resolving, Copying, ResolveStage
  <2>10. CASE KeepLocalDone(n) \/ AdoptRemote(n) \/ ResolveFails(n)
    BY <2>4, <2>10 DEF KeepLocalDone, AdoptRemote, ResolveFails, Settle
  <2> QED
    BY <1>5, <2>7, <2>8, <2>9, <2>10 DEF Resolution
<1>6. ASSUME NEW n \in Name, World(n) PROVE Apart'
  <2>1. beside \subseteq beside'
    BY <1>2, <1>6, WorldEffects DEF Harmless
  <2>2. CASE UNCHANGED resolve
    <3>1. InResolution' = InResolution
      BY <2>2 DEF InResolution, WorkedOn
    <3> QED
      BY <1>4, <1>6, <2>1, <3>1
  <2>3. ASSUME NEW kind, NEW pc \in {"localDelete", "fetch", "copyUpload"}, StartResolve(n, kind, pc)
        PROVE  Apart'
    <3>1. resolve'[n].pc = pc /\ \A m \in Name \ {n} : resolve'[m] = resolve[m]
      BY <1>2, <2>3, StartFields
    <3>2. CASE ~isSyncing
      BY <1>4, <1>6, <2>1, <3>2
    <3>3. CASE isSyncing
      <4>1. WorkedOn(n, resolve'[n].pc) \subseteq beside'
        BY <2>3, <3>1, <3>3 DEF StartResolve
      <4>2. InResolution' \subseteq InResolution \cup beside'
        BY <1>2, <3>1, <4>1, SameWork
      <4> QED
        BY <1>4, <1>6, <2>1, <4>2
    <3> QED
      BY <3>2, <3>3
  <2>4. CASE KeepLocal(n) \/ KeepRemote(n) \/ KeepBoth(n)
    BY <2>3, <2>4 DEF KeepLocal, KeepRemote, KeepBoth
  <2> QED
    BY <1>6, <2>2, <2>4 DEF World, UserWrite, UserRemove, DevicePut, DeviceDrop, KeepBothRefused
<1>7. CASE Restart
  BY <1>7, Shapes DEF Restart, Apart
<1> QED
  BY <1>1, <1>3, <1>5, <1>6, <1>7 DEF Next


-----------------------------------------------------------------------------
(* Only what the user removed is removed on the server *)

\* A recorded file that is missing was removed by the user or on the server.
MissingExplained(ents, v) ==
  \A n \in Name : ents[n] # Unknown /\ disk[n] = NoFile => n \in touched \cup beside \/ Buried(n, v)

\* A run would take this name for a file the user removed.
LooksRemoved(r, n) ==
  Known(n) /\ r.scan[n] = NoFile /\ n \notin r.unreadable /\ n \notin r.downloaded

RemovalInv ==
  /\ MissingExplained(entries, cursor) /\ MissingExplained(saved.entries, saved.cursor)
  /\ \A t \in Trigger :
       /\ run[t].pc = "uploaded" /\ disk[run[t].name] = NoFile => run[t].name \in touched \cup beside
       /\ run[t].pc \in Reported => \A n \in run[t].deleted : Buried(n, cursor)
       /\ \A n \in Name : LooksRemoved(run[t], n) =>
            /\ run[t].pc \in {"list", "diff"} => n \in touched \cup beside \/ Buried(n, cursor)
            /\ run[t].pc \in Reported => n \in touched \cup beside \/ n \in run[t].deleted
            /\ run[t].pc \in Applied => n \in touched \cup beside

LEMMA BuriedStays ==
  ASSUME Advances, NEW n, NEW v, Buried(n, v)
  PROVE  \E g \in gone' : g.name = n /\ g.version > v
BY DEF Buried, Advances

LEMMA ReconcileRemovals ==
  ASSUME Basics, GhostInv, RemovalInv, Advances, Basics',
         NEW t \in Trigger, Reconcile(t) \/ RunFails(t)
  PROVE  RemovalInv'
<1>1. /\ TypeOK /\ ServerInv /\ CursorInv /\ ServerTypeOK'
      /\ \A u \in Trigger \ {t} : run'[u].pc = "idle"
  BY FlightSteps DEF Basics, TypeOK
<1>2. /\ disk \in Manifest /\ entries \in [Name -> Entry] /\ saved.entries \in [Name -> Entry]
      /\ cursor \in Nat /\ saved.cursor \in Nat /\ saved.cursor <= cursor
      /\ run[t].newVersion \in Nat /\ run[t].name \in Name /\ run[t].left \subseteq Name
      /\ run[t].scan \in Manifest /\ run[t].deleted \subseteq Name
      /\ \A g \in gone : g.version \in Nat
  BY Numbers
<1>3. \A n, v : Buried(n, v) => \E g \in gone' : g.name = n /\ g.version > v
  BY BuriedStays
<1>4. ASSUME MissingExplained(entries, cursor)',
             MissingExplained(saved.entries, saved.cursor)',
             run'[t].pc = "uploaded" /\ disk'[run'[t].name] = NoFile
               => run'[t].name \in touched' \cup beside',
             run'[t].pc \in Reported => \A n \in run'[t].deleted : Buried(n, cursor)',
             \A n \in Name : LooksRemoved(run[t], n)' =>
               /\ run'[t].pc \in {"list", "diff"} => n \in touched' \cup beside' \/ Buried(n, cursor)'
               /\ run'[t].pc \in Reported => n \in touched' \cup beside' \/ n \in run'[t].deleted
               /\ run'[t].pc \in Applied => n \in touched' \cup beside'
      PROVE  RemovalInv'
  BY <1>1, <1>4 DEF RemovalInv, Reported, Applied
<1>5. ASSUME UNCHANGED <<disk, touched, entries, cursor, saved>>, beside \subseteq beside'
      PROVE  /\ MissingExplained(entries, cursor)'
             /\ MissingExplained(saved.entries, saved.cursor)'
  BY <1>3, <1>5 DEF RemovalInv, MissingExplained, Buried
<1>6. CASE EndRun(t) /\ UNCHANGED <<disk, touched, beside, entries, cursor, saved>>
  BY <1>1, <1>4, <1>5, <1>6, BeginFields DEF Reported, Applied
<1>7. CASE UploadThrows(t) \/ RunFails(t) \/ (Download(t) /\ EndRun(t))
  BY <1>6, <1>7 DEF UploadThrows, RunFails, Download, state, watch, marks
<1>8. CASE Download(t) /\ ~EndRun(t)
  <2>1. /\ run'[t].pc = "fetched" /\ HeldActions(t) /\ run[t].pc \in Reported
        /\ UNCHANGED <<disk, touched, beside, entries, cursor, saved, gone>>
    BY <1>1, <1>8, ActionFields DEF Download, Acting, Reported, state, server, watch, marks
  <2> QED
    BY <1>4, <1>5, <2>1
    DEF HeldActions, HeldReport, LooksRemoved, Known, RemovalInv, Reported, Applied, Buried
<1>9. CASE Downloaded(t)
  <2> DEFINE n == NextAction(t).name  c == ContentOf(run[t].id)
             e == [id |-> run[t].id, content |-> c]
  <2>1. /\ disk' = [disk EXCEPT ![n] = c] /\ entries' = [entries EXCEPT ![n] = e]
        /\ touched' = touched \ {n} /\ beside \ {n} \subseteq beside'
        /\ UNCHANGED <<cursor, saved, gone>> /\ run[t].pc = "fetched"
    BY <1>9 DEF Downloaded, SyncedByRun, SyncedNow, server
  <2>2. Kept(rows, gone, run[t].id) /\ run[t].changed # {}
    BY <2>1 DEF Basics, FetchInv
  <2>3. n \in Name /\ c # NoFile
    BY <1>1, <2>2, NextOfReport, FetchedContent DEF Action, TypeOK
  <2>4. /\ HeldReport(t) /\ run'[t].pc = "act"
        /\ run'[t].downloaded = run[t].downloaded \cup {n}
    BY <1>1, <1>9, ActionFields
  <2> HIDE DEF n, c, e
  <2>5. disk'[n] # NoFile /\ \A m \in Name \ {n} : disk'[m] = disk[m] /\ entries'[m] = entries[m]
    BY <1>2, <2>1, <2>3 DEF Manifest
  <2>6. \A m \in Name \ {n} : m \in touched \cup beside => m \in touched' \cup beside'
    BY <2>1
  <2>7. MissingExplained(entries, cursor)'
    BY <2>1, <2>5, <2>6 DEF RemovalInv, MissingExplained, Buried
  <2>8. MissingExplained(saved.entries, saved.cursor)'
    BY <2>1, <2>5, <2>6 DEF RemovalInv, MissingExplained, Buried
  <2>9. \A m \in Name : LooksRemoved(run[t], m)' =>
          m # n /\ (m \in touched' \cup beside' \/ m \in run[t].deleted)
    BY <2>1, <2>4, <2>5, <2>6 DEF LooksRemoved, Known, HeldReport, RemovalInv, Reported
  <2> QED
    BY <1>4, <2>1, <2>4, <2>7, <2>8, <2>9 DEF HeldReport, RemovalInv, Reported, Applied, Buried
<1>10. CASE Begin(t)
  <2>1. /\ run'[t].pc = "list" /\ run'[t].downloaded = {}
        /\ run'[t].scan = Scan(run'[t].unreadable)
        /\ UNCHANGED <<disk, touched, entries, cursor, saved, gone>> /\ beside \subseteq beside'
    BY <1>1, <1>10, BeginFields DEF Begin, state, server
  <2>2. ASSUME NEW n \in Name, LooksRemoved(run[t], n)'
        PROVE  n \in touched \cup beside' \/ Buried(n, cursor)
    <3>1. Known(n) /\ disk[n] = NoFile
      BY <2>1, <2>2 DEF LooksRemoved, Scan, Known
    <3> QED
      BY <2>1, <3>1 DEF RemovalInv, MissingExplained, Known
  <2> QED
    BY <1>4, <1>5, <2>1, <2>2 DEF Reported, Applied, Buried
<1>11. CASE List(t)
  <2>1. /\ run'[t].pc = "diff" /\ HeldScan(t) /\ run[t].pc = "list"
        /\ UNCHANGED <<disk, touched, beside, entries, cursor, saved, gone>>
    BY <1>1, <1>11, BeginFields DEF List, state, server, watch, marks
  <2> QED
    BY <1>4, <1>5, <2>1
    DEF HeldScan, LooksRemoved, Known, RemovalInv, Reported, Applied, Buried
<1>12. CASE Diff(t)
  <2>1. /\ run'[t].pc = "reply" /\ HeldScan(t) /\ run[t].pc = "diff"
        /\ run'[t].deleted = DeleteActions(gone, cursor)
        /\ UNCHANGED <<disk, touched, beside, entries, cursor, saved, gone>>
    BY <1>1, <1>12, BeginFields DEF Diff, state, server, watch, marks
  <2>2. \A n : n \in run'[t].deleted <=> Buried(n, cursor)
    BY <2>1 DEF DeleteActions, Deleted, Buried
  <2> QED
    BY <1>4, <1>5, <2>1, <2>2
    DEF HeldScan, LooksRemoved, Known, RemovalInv, Reported, Applied, Buried
<1>13. CASE Reply(t) \/ PassOver(t) \/ RecordConflict(t)
  <2>1. /\ run'[t].pc = "act" /\ HeldReport(t) /\ run[t].pc \in Reported
        /\ run'[t].downloaded = run[t].downloaded
        /\ UNCHANGED <<disk, touched, beside, entries, cursor, saved, gone>>
    BY <1>1, <1>13, BeginFields, ActionFields
    DEF Reply, PassOver, RecordConflict, Acting, HeldActions, Reported, state, server, watch, marks
  <2> QED
    BY <1>4, <1>5, <2>1
    DEF HeldReport, LooksRemoved, Known, RemovalInv, Reported, Applied, Buried
<1>14. CASE ApplyDeletions(t)
  <2> DEFINE D == run[t].deleted
  <2>1. PICK S \in SUBSET {n \in D : disk[n] # NoFile} :
          disk' = [n \in Name |-> IF n \in D \ S THEN NoFile ELSE disk[n]]
    BY <1>14 DEF ApplyDeletions
  <2>2. /\ run'[t].pc = "uploads" /\ HeldActions(t) /\ run[t].pc = "act"
        /\ entries' = [n \in Name |-> IF n \in D THEN Unknown ELSE entries[n]]
        /\ touched' = touched \ D /\ cursor' = run[t].newVersion
        /\ UNCHANGED <<saved, gone, beside>>
    BY <1>1, <1>14, ActionFields DEF ApplyDeletions, server
  <2>3. \A n \in Name : n \notin D /\ Buried(n, cursor) => Buried(n, cursor')
    BY <1>2, <2>2 DEF GhostInv, Reported, Buried
  <2>4. MissingExplained(entries, cursor)'
    <3>1. ASSUME NEW n \in Name, entries'[n] # Unknown, disk'[n] = NoFile
          PROVE  n \in touched' \cup beside' \/ Buried(n, cursor')
      <4>1. n \notin D /\ entries[n] # Unknown /\ disk[n] = NoFile
        BY <2>1, <2>2, <3>1
      <4> QED
        BY <2>2, <2>3, <4>1 DEF RemovalInv, MissingExplained
    <3> QED
      BY <2>2, <3>1 DEF MissingExplained, Buried
  <2>5. MissingExplained(saved.entries, saved.cursor)'
    <3>1. ASSUME NEW n \in Name, saved.entries[n] # Unknown, disk'[n] = NoFile
          PROVE  n \in touched' \cup beside' \/ Buried(n, saved.cursor)
      <4>1. CASE n \in D
        <5>1. Buried(n, cursor)
          BY <2>2, <4>1 DEF RemovalInv, Reported
        <5> QED
          BY <1>2, <5>1 DEF Buried
      <4>2. CASE n \notin D
        BY <2>1, <2>2, <3>1, <4>2 DEF RemovalInv, MissingExplained
      <4> QED
        BY <4>1, <4>2
    <3> QED
      BY <2>2, <3>1 DEF MissingExplained, Buried
  <2>6. ASSUME NEW n \in Name, LooksRemoved(run[t], n)' PROVE n \in touched' \cup beside'
    <3>1. n \notin D /\ LooksRemoved(run[t], n)
      BY <2>2, <2>6 DEF LooksRemoved, Known, HeldActions, HeldReport
    <3> QED
      BY <2>2, <3>1 DEF RemovalInv, Reported
  <2> QED
    BY <1>4, <2>2, <2>4, <2>5, <2>6 DEF Reported
<1>15. CASE UploadNext(t) \/ Replace(t) \/ EndUploads(t)
  <2>1. /\ run'[t].pc \in Applied \ {"uploaded"} /\ HeldActions(t) /\ run[t].pc \in Applied
        /\ UNCHANGED <<disk, touched, beside, entries, cursor, saved>>
    BY <1>1, <1>15, UploadFields DEF UploadNext, Replace, EndUploads, Applied, state, watch, marks
  <2> QED
    BY <1>4, <1>5, <2>1
    DEF HeldActions, HeldReport, LooksRemoved, Known, RemovalInv, Reported, Applied
<1>16. CASE Upload(t)
  <2>1. /\ run'[t].pc = "uploaded" /\ HeldActions(t) /\ run[t].pc = "upload"
        /\ run'[t].name = run[t].name
        /\ disk[run[t].name] # NoFile /\ UNCHANGED <<disk, entries, cursor, saved, gone>>
    BY <1>1, <1>16, UploadFields DEF Upload, state, ServerCreate
  <2>2. \A n \in Name \ {run[t].name} : n \in touched \cup beside => n \in touched' \cup beside'
    BY <1>16 DEF Upload, SyncedByRun, SyncedNow
  <2>3. run[t].scan[run[t].name] # NoFile
    BY <2>1 DEF Basics, PlanInv, Planned, Sending, ToSend
  <2>4. MissingExplained(entries, cursor)' /\ MissingExplained(saved.entries, saved.cursor)'
    BY <2>1, <2>2 DEF RemovalInv, MissingExplained, Buried
  <2>5. \A n \in Name : LooksRemoved(run[t], n)' => n \in touched' \cup beside'
    BY <2>1, <2>2, <2>3 DEF RemovalInv, LooksRemoved, Known, HeldActions, HeldReport, Applied
  <2> QED
    BY <1>4, <2>1, <2>4, <2>5 DEF Reported
<1>17. CASE Uploaded(t)
  <2>1. /\ run'[t].pc = "uploads" /\ run[t].pc = "uploaded" /\ HeldActions(t)
        /\ \A n \in Name \ {run[t].name} : entries'[n] = entries[n]
        /\ UNCHANGED <<disk, touched, beside, cursor, saved, gone>>
    BY <1>1, <1>2, <1>17, UploadFields DEF Uploaded, watch, marks, server
  <2>2. run[t].scan[run[t].name] # NoFile
    BY <2>1 DEF Basics, PlanInv, Planned, Sending, ToSend
  <2>3. disk[run[t].name] # NoFile \/ run[t].name \in touched \cup beside
    BY <2>1 DEF RemovalInv
  <2>4. MissingExplained(entries, cursor)' /\ MissingExplained(saved.entries, saved.cursor)'
    BY <2>1, <2>3 DEF RemovalInv, MissingExplained, Buried
  <2>5. \A n \in Name : LooksRemoved(run[t], n)' => n \in touched' \cup beside'
    BY <2>1, <2>2 DEF RemovalInv, LooksRemoved, Known, HeldActions, HeldReport, Applied
  <2> QED
    BY <1>4, <2>1, <2>4, <2>5 DEF Reported
<1>18. CASE RemoveRemote(t)
  <2>1. /\ run'[t].pc = "removals" /\ HeldActions(t) /\ run[t].pc = "removals"
        /\ \A n \in Name : entries'[n] = entries[n] \/ entries'[n] = Unknown
        /\ UNCHANGED <<disk, touched, beside, cursor, saved>>
    BY <1>1, <1>2, <1>18, UploadFields DEF RemoveRemote, marks
  <2>2. MissingExplained(entries, cursor)' /\ MissingExplained(saved.entries, saved.cursor)'
    BY <1>3, <2>1 DEF RemovalInv, MissingExplained, Buried
  <2>3. \A n \in Name : LooksRemoved(run[t], n)' => n \in touched' \cup beside'
    BY <2>1 DEF RemovalInv, LooksRemoved, Known, HeldActions, HeldReport, Applied
  <2> QED
    BY <1>4, <2>1, <2>2, <2>3 DEF Reported
<1>19. CASE Finish(t)
  <2>1. /\ run'[t].pc = "idle" /\ saved'.cursor = cursor /\ saved'.entries = entries
        /\ UNCHANGED <<disk, touched, beside, cursor, entries, gone>>
    BY <1>1, <1>19, BeginFields DEF Finish, state, server, watch, marks
  <2>2. MissingExplained(entries, cursor)' /\ MissingExplained(saved.entries, saved.cursor)'
    BY <2>1 DEF RemovalInv, MissingExplained, Buried
  <2> QED
    BY <1>4, <2>1, <2>2 DEF Reported, Applied
<1> QED
  BY <1>7, <1>8, <1>9, <1>10, <1>11, <1>12, <1>13, <1>14, <1>15, <1>16, <1>17, <1>18, <1>19
  DEF Reconcile

LEMMA RemovalNext ==
  ASSUME Basics, Basics', Apart, GhostInv, RemovalInv, [Next]_vars
  PROVE  RemovalInv'
<1>1. CASE UNCHANGED vars
  BY <1>1 DEF vars, RemovalInv, MissingExplained, LooksRemoved, Known, Buried
<1>2. CASE \E t \in Trigger : Reconcile(t) \/ RunFails(t)
  BY <1>2, ReconcileRemovals, NextAdvances DEF Next
<1>3. ASSUME NEW n \in Name, Resolution(n) \/ World(n)
      PROVE  /\ UNCHANGED <<run, cursor>>
             /\ \A m, v : Buried(m, v) => \E g \in gone' : g.name = m /\ g.version > v
  BY <1>3, OnlyRunsStep, NextAdvances, BuriedStays DEF Next
\* The user, the other device, or a resolution that starts or fails.
<1>4. ASSUME NEW n \in Name, Resolution(n) \/ World(n), Harmless PROVE RemovalInv'
  <2>1. /\ UNCHANGED <<run, cursor>>
        /\ \A m, v : Buried(m, v) => \E g \in gone' : g.name = m /\ g.version > v
    BY <1>3, <1>4
  <2>2. MissingExplained(entries, cursor)' /\ MissingExplained(saved.entries, saved.cursor)'
    BY <1>4, <2>1 DEF Harmless, RemovalInv, MissingExplained, Buried
  <2>3. ASSUME NEW t \in Trigger
        PROVE  /\ run[t].pc = "uploaded" /\ disk'[run[t].name] = NoFile
                    => run[t].name \in touched' \cup beside'
               /\ run[t].pc \in Reported => \A m \in run[t].deleted : Buried(m, cursor)'
    <3>1. run[t].name \in Name
      BY Numbers
    <3> QED
      BY <1>4, <2>1, <3>1 DEF Harmless, RemovalInv, Buried
  <2>4. ASSUME NEW t \in Trigger, NEW m \in Name, LooksRemoved(run[t], m)'
        PROVE  /\ run[t].pc \in {"list", "diff"} => m \in touched' \cup beside' \/ Buried(m, cursor)'
               /\ run[t].pc \in Reported => m \in touched' \cup beside' \/ m \in run[t].deleted
               /\ run[t].pc \in Applied => m \in touched' \cup beside'
    <3>1. LooksRemoved(run[t], m)
      BY <1>4, <2>1, <2>4 DEF Harmless, LooksRemoved, Known
    <3> QED
      BY <1>4, <2>1, <3>1 DEF Harmless, RemovalInv, Buried
  <2> QED
    BY <2>1, <2>2, <2>3, <2>4 DEF RemovalInv
\* A resolution that succeeds leaves a file under the name, which is marked while
\* a run is under way.
<1>5. ASSUME NEW n \in Name, Resolution(n), NEW m \in InResolution \cap Name,
             Uploads(m) \/ Records(m)
      PROVE  RemovalInv'
  <2>1. /\ UNCHANGED <<run, cursor>>
        /\ \A k, v : Buried(k, v) => \E g \in gone' : g.name = k /\ g.version > v
    BY <1>3, <1>5
  <2>2. /\ disk'[m] # NoFile /\ beside' = beside
        /\ \A k \in Name \ {m} : /\ disk'[k] = disk[k] /\ entries'[k] = entries[k]
                                 /\ k \in touched => k \in touched'
    BY <1>5 DEF Uploads, Records
  <2>3. MissingExplained(entries, cursor)'
    BY <2>1, <2>2 DEF RemovalInv, MissingExplained, Buried
  <2>4. MissingExplained(saved.entries, saved.cursor)'
    <3>1. CASE saved' = saved
      BY <2>1, <2>2, <3>1 DEF RemovalInv, MissingExplained, Buried
    <3>2. CASE saved'.entries = entries' /\ saved'.cursor = cursor'
      BY <2>3, <3>2 DEF MissingExplained, Buried
    <3> QED
      BY <1>5, <3>1, <3>2 DEF Uploads, Records
  <2>5. ASSUME NEW t \in Trigger, run[t].pc # "idle" PROVE m \in beside
    BY <1>5, <2>5 DEF Apart
  <2>6. ASSUME NEW t \in Trigger
        PROVE  /\ run[t].pc = "uploaded" /\ disk'[run[t].name] = NoFile
                    => run[t].name \in touched' \cup beside'
               /\ run[t].pc \in Reported => \A k \in run[t].deleted : Buried(k, cursor)'
    <3>1. run[t].name \in Name
      BY Numbers
    <3> QED
      BY <2>1, <2>2, <3>1 DEF RemovalInv, Buried
  <2>7. ASSUME NEW t \in Trigger, NEW k \in Name, LooksRemoved(run[t], k)'
        PROVE  /\ run[t].pc \in {"list", "diff"} => k \in touched' \cup beside' \/ Buried(k, cursor)'
               /\ run[t].pc \in Reported => k \in touched' \cup beside' \/ k \in run[t].deleted
               /\ run[t].pc \in Applied => k \in touched' \cup beside'
    <3>1. CASE k = m
      BY <2>2, <2>5, <3>1 DEF Reported, Applied
    <3>2. CASE k # m
      <4>1. LooksRemoved(run[t], k)
        BY <2>1, <2>2, <2>7, <3>2 DEF LooksRemoved, Known
      <4> QED
        BY <2>1, <2>2, <3>2, <4>1 DEF RemovalInv, Buried
    <3> QED
      BY <3>1, <3>2
  <2> QED
    BY <2>1, <2>3, <2>4, <2>6, <2>7 DEF RemovalInv
<1>6. CASE Restart
  BY <1>6, Shapes
  DEF Restart, RemovalInv, MissingExplained, Buried, Reported, Applied, server, marks
<1> QED
  BY <1>1, <1>2, <1>4, <1>5, <1>6, ResolutionEffects, WorldEffects DEF Next

LEMMA SafeAlways == Spec => [](Basics /\ Apart /\ GhostInv /\ RemovalInv)
<1>1. Init => Apart /\ GhostInv /\ RemovalInv
  BY Shapes DEF Init, ServerInit, Apart, GhostInv, RemovalInv, MissingExplained, Reported, Applied
<1>2. Basics /\ Basics' /\ Apart /\ GhostInv /\ RemovalInv /\ [Next]_vars
        => Apart' /\ GhostInv' /\ RemovalInv'
  BY ApartNext, GhostNext, RemovalNext
<1> QED
  BY <1>1, <1>2, BasicsInit, BasicsNext, PTL DEF Spec

\* The removal pass of a run deletes a file on the server only if the user
\* removed or changed it in the folder, or a resolution worked on the name while
\* a run was under way: whatever failed, restarted or could not be read in
\* between.
THEOREM RemovalsAreMeant == Spec => RemovalsAreTheUsers
<1> DEFINE P == rows' # rows => \A t \in Trigger : Handled(t) \subseteq touched \cup beside
<1>1. Basics /\ RemovalInv /\ [Next]_vars => [P]_vars
  <2> SUFFICES ASSUME Basics, RemovalInv, Next, rows' # rows, NEW t \in Trigger,
                      NEW n \in Handled(t)
               PROVE  n \in touched \cup beside
    OBVIOUS
  <2>1. run[t].pc = "removals" /\ n \in run[t].left /\ run'[t] # run[t] /\ n \notin run'[t].left
    BY DEF Handled
  <2>2. PICK u \in Trigger : Reconcile(u) \/ RunFails(u)
    <3>1. Restart => rows' = rows
      BY DEF Restart, server
    <3>2. (\E m \in Name : Resolution(m) \/ World(m)) => UNCHANGED run
      BY OnlyRunsStep
    <3> QED
      BY <2>1, <3>1, <3>2 DEF Next
  <2>3. u = t
    BY <2>1, <2>2, FlightSteps DEF Basics
  <2>4. RemoveRemote(t)
    BY <2>1, <2>2, <2>3 DEF Reconcile, RunFails, Begin, List, Diff, Reply, Download, Downloaded,
       PassOver, RecordConflict, ApplyDeletions, UploadNext, Replace, Upload, UploadThrows,
       Uploaded, EndUploads, Finish, Acting, server
  <2>5. Known(n)
    <3>1. PICK m \in run[t].left :
            /\ Step(t, [run[t] EXCEPT !.left = @ \ {m}])
            /\ ~Known(m) => UNCHANGED server
      BY <2>4 DEF RemoveRemote
    <3>2. run'[t].left = run[t].left \ {m}
      BY <3>1 DEF Step, Basics, TypeOK, Run
    <3> QED
      BY <2>1, <3>1, <3>2 DEF server
  <2>6. LooksRemoved(run[t], n)
    BY <2>1, <2>5 DEF LooksRemoved, Basics, PlanInv, Planned, Missing
  <2>7. n \in Name
    BY <2>1, Numbers
  <2> QED
    BY <2>1, <2>6, <2>7 DEF RemovalInv, Applied
<1>2. Spec => [][P]_vars
  BY <1>1, SafeAlways, PTL DEF Spec
<1> QED
  BY <1>2 DEF RemovalsAreTheUsers


-----------------------------------------------------------------------------
(* Only what the user put into the folder is uploaded as new *)

\* Names a file without an entry may be uploaded under.
Excused == touched \cup stuck \cup beside

\* A file without an entry is excused, or the server has one of its name, or
\* had: its deletion is still to be reported.
StrayExplained(ents, v) ==
  \A n \in Name : disk[n] # NoFile /\ ents[n] = Unknown /\ n \notin Excused
    => Live(rows, n) \/ Buried(n, v)

\* A run that does not find the name in the listing would take it for a new file.
LooksNew(r, n) == ~Known(n) /\ r.scan[n] # NoFile /\ n \notin Excused

\* An id that belongs, or belonged, to a file of the name.
Listed(table, graves, n, id) ==
  id # 0 => \/ \E r \in table : r.name = n /\ r.version = id
            \/ \E g \in graves : g.name = n /\ g.id = id

UploadInv ==
  /\ StrayExplained(entries, cursor) /\ StrayExplained(saved.entries, saved.cursor)
  /\ \A t \in Trigger :
       /\ run[t].pc = "replace" => Known(run[t].name)
       /\ run[t].pc = "upload" /\ ~Known(run[t].name) => run[t].remote[run[t].name] = 0
       /\ run[t].pc \in {"diff"} \cup Reported =>
            \A n \in Name : Listed(rows, gone, n, run[t].remote[n])
       /\ \A n \in Name : LooksNew(run[t], n) =>
            /\ run[t].pc = "list" => Live(rows, n) \/ Buried(n, cursor)
            /\ run[t].pc = "diff" /\ run[t].remote[n] = 0 => Buried(n, cursor)
            /\ run[t].pc \in Reported \cup (Applied \ {"removals"}) /\ run[t].remote[n] = 0
                 => n \in run[t].deleted \/ (run[t].pc = "uploaded" /\ n = run[t].name)

LEMMA ListedStays ==
  ASSUME Advances, NEW n, NEW id, Listed(rows, gone, n, id)
  PROVE  Listed(rows', gone', n, id)
BY DEF Advances, Listed

LEMMA ListedIds ==
  ASSUME ServerTypeOK, ServerInv, NEW n \in Name
  PROVE  Listed(rows, gone, n, IdOf(rows, n)) /\ (IdOf(rows, n) = 0 => ~Live(rows, n))
<1>1. CASE Live(rows, n)
  <2>1. PICK r \in rows : r.name = n
    BY <1>1 DEF Live
  <2> DEFINE s == CHOOSE s \in rows : s.name = n
  <2>2. s \in rows /\ s.name = n
    BY <2>1
  <2>3. IdOf(rows, n) = s.version
    BY <1>1 DEF IdOf
  <2> HIDE DEF s
  <2>4. Listed(rows, gone, n, IdOf(rows, n))
    BY <2>2, <2>3 DEF Listed
  <2> QED
    BY <2>4, Ids
<1>2. CASE ~Live(rows, n)
  BY <1>2 DEF IdOf, Listed
<1> QED
  BY <1>1, <1>2

\* What the server has, or had, stays explained.
LEMMA StillExplained ==
  ASSUME Basics, Basics', Advances, NEW n, NEW v \in Nat, v <= cursor, Live(rows, n) \/ Buried(n, v)
  PROVE  Live(rows', n) \/ \E g \in gone' : g.name = n /\ g.version > v
<1>1. Buried(n, v) => \E g \in gone' : g.name = n /\ g.version > v
  BY BuriedStays
<1>2. ASSUME NEW r \in rows, r.name = n, r \notin rows'
      PROVE  \E g \in gone' : g.name = n /\ g.version > v
  <2>1. PICK g \in gone' : g.name = n /\ g.version > clock
    BY <1>2 DEF Advances
  <2>2. cursor \in Nat /\ clock \in Nat /\ cursor <= clock
    BY Numbers
  <2>3. g.version \in Nat
    BY NewlyGone
  <2>4. g.version > v
    BY <2>1, <2>2, <2>3
  <2> QED
    BY <2>1, <2>4
<1> QED
  BY <1>1, <1>2 DEF Live

LEMMA ReconcileUploads ==
  ASSUME Basics, GhostInv, RemovalInv, UploadInv, Advances, Basics',
         NEW t \in Trigger, Reconcile(t) \/ RunFails(t)
  PROVE  UploadInv'
<1>1. /\ TypeOK /\ ServerInv /\ CursorInv /\ ServerTypeOK /\ ServerTypeOK'
      /\ \A u \in Trigger \ {t} : run'[u].pc = "idle"
  BY FlightSteps DEF Basics, TypeOK
<1>2. /\ disk \in Manifest /\ entries \in [Name -> Entry] /\ saved.entries \in [Name -> Entry]
      /\ cursor \in Nat /\ saved.cursor \in Nat /\ saved.cursor <= cursor
      /\ run[t].newVersion \in Nat /\ run[t].name \in Name /\ run[t].left \subseteq Name
      /\ run[t].scan \in Manifest /\ run[t].deleted \subseteq Name
      /\ \A g \in gone : g.version \in Nat
  BY Numbers
<1>3. /\ \A n : Live(rows, n) \/ Buried(n, cursor)
                  => Live(rows', n) \/ \E g \in gone' : g.name = n /\ g.version > cursor
      /\ \A n : Live(rows, n) \/ Buried(n, saved.cursor)
                  => Live(rows', n) \/ \E g \in gone' : g.name = n /\ g.version > saved.cursor
  BY <1>2, StillExplained
<1>4. ASSUME StrayExplained(entries, cursor)', StrayExplained(saved.entries, saved.cursor)',
             run'[t].pc = "replace" => Known(run[t].name)',
             run'[t].pc = "upload" /\ ~Known(run[t].name)' => run'[t].remote[run'[t].name] = 0,
             run'[t].pc \in {"diff"} \cup Reported =>
               \A n \in Name : Listed(rows', gone', n, run'[t].remote[n]),
             \A n \in Name : LooksNew(run[t], n)' =>
               /\ run'[t].pc = "list" => Live(rows, n)' \/ Buried(n, cursor)'
               /\ run'[t].pc = "diff" /\ run'[t].remote[n] = 0 => Buried(n, cursor)'
               /\ run'[t].pc \in Reported \cup (Applied \ {"removals"}) /\ run'[t].remote[n] = 0
                    => n \in run'[t].deleted \/ (run'[t].pc = "uploaded" /\ n = run'[t].name)
      PROVE  UploadInv'
  BY <1>1, <1>4 DEF UploadInv, Reported, Applied
<1>5. ASSUME UNCHANGED <<disk, touched, stuck, entries, cursor, saved>>, beside \subseteq beside'
      PROVE  StrayExplained(entries, cursor)' /\ StrayExplained(saved.entries, saved.cursor)'
  <2>1. \A n : n \notin Excused' => n \notin Excused
    BY <1>5 DEF Excused
  <2>2. ASSUME NEW n \in Name, disk[n] # NoFile, n \notin Excused'
        PROVE  /\ entries[n] = Unknown => Live(rows, n) \/ Buried(n, cursor)
               /\ saved.entries[n] = Unknown => Live(rows, n) \/ Buried(n, saved.cursor)
    BY <2>1, <2>2 DEF UploadInv, StrayExplained
  <2>3. ASSUME NEW n \in Name, disk[n] # NoFile, n \notin Excused'
        PROVE  /\ entries[n] = Unknown
                    => Live(rows', n) \/ \E g \in gone' : g.name = n /\ g.version > cursor
               /\ saved.entries[n] = Unknown
                    => Live(rows', n) \/ \E g \in gone' : g.name = n /\ g.version > saved.cursor
    BY <1>3, <2>2, <2>3
  <2> QED
    BY <1>5, <2>3 DEF StrayExplained, Buried
<1>6. CASE EndRun(t) /\ UNCHANGED <<disk, touched, stuck, beside, entries, cursor, saved>>
  BY <1>1, <1>4, <1>5, <1>6, BeginFields DEF Reported, Applied
<1>7. CASE UploadThrows(t) \/ RunFails(t) \/ (Download(t) /\ EndRun(t))
  BY <1>6, <1>7 DEF UploadThrows, RunFails, Download, state, watch, marks
<1>8. CASE Download(t) /\ ~EndRun(t)
  <2>1. /\ run'[t].pc = "fetched" /\ HeldActions(t) /\ run[t].pc = "act"
        /\ UNCHANGED <<disk, touched, stuck, beside, entries, cursor, saved, gone, rows>>
    BY <1>1, <1>8, ActionFields DEF Download, Acting, state, server, watch, marks
  <2>2. \A n \in Name : LooksNew(run[t], n)' => LooksNew(run[t], n)
    BY <2>1 DEF LooksNew, Known, HeldActions, HeldReport, Excused
  <2> QED
    BY <1>4, <1>5, <2>1, <2>2 DEF HeldActions, HeldReport, UploadInv, Reported, Applied
<1>9. CASE Downloaded(t)
  <2> DEFINE n == NextAction(t).name  c == ContentOf(run[t].id)
             e == [id |-> run[t].id, content |-> c]
  <2>1. /\ disk' = [disk EXCEPT ![n] = c] /\ entries' = [entries EXCEPT ![n] = e]
        /\ touched \ {n} \subseteq touched' /\ stuck \ {n} \subseteq stuck'
        /\ beside \ {n} \subseteq beside'
        /\ UNCHANGED <<cursor, saved, gone, rows>> /\ run[t].pc = "fetched"
    BY <1>9 DEF Downloaded, SyncedByRun, SyncedNow, server
  <2>2. /\ Kept(rows, gone, run[t].id) /\ run[t].changed # {} /\ run[t].id # 0
        /\ run[t].id = run[t].remote[n]
    BY <2>1 DEF Basics, FetchInv
  <2>3. n \in Name /\ c # NoFile
    BY <1>1, <2>2, NextOfReport, FetchedContent DEF Action, TypeOK
  <2>4. HeldReport(t) /\ run'[t].pc = "act"
    BY <1>1, <1>9, ActionFields
  <2>5. e # Unknown
    BY <2>3, Recorded
  <2> HIDE DEF n, c, e
  <2>6. Live(rows, n) \/ Buried(n, cursor)
    <3>1. Listed(rows, gone, n, run[t].id)
      BY <2>1, <2>2, <2>3 DEF UploadInv, Reported
    <3>2. \A g \in gone : g.id = run[t].id => g.version > cursor
      BY <2>1 DEF GhostInv
    <3> QED
      BY <2>2, <3>1, <3>2 DEF Listed, Live, Buried
  <2>7. Live(rows, n) \/ Buried(n, saved.cursor)
    BY <1>2, <2>6 DEF Buried
  <2>8. /\ entries'[n] # Unknown
        /\ \A m \in Name \ {n} : disk'[m] = disk[m] /\ entries'[m] = entries[m]
                                 /\ (m \notin Excused' => m \notin Excused)
    BY <1>2, <2>1, <2>3, <2>5 DEF Manifest, Excused
  <2>9. StrayExplained(entries, cursor)'
    BY <2>1, <2>8 DEF UploadInv, StrayExplained, Buried, Live
  <2>10. StrayExplained(saved.entries, saved.cursor)'
    BY <2>1, <2>7, <2>8 DEF UploadInv, StrayExplained, Buried, Live
  <2>11. \A m \in Name : LooksNew(run[t], m)' => LooksNew(run[t], m)
    BY <2>1, <2>4, <2>8 DEF LooksNew, Known, HeldReport
  <2> QED
    BY <1>4, <2>1, <2>4, <2>9, <2>10, <2>11 DEF HeldReport, UploadInv, Reported, Applied
<1>10. CASE Begin(t)
  <2>1. /\ run'[t].pc = "list" /\ run'[t].scan = Scan(run'[t].unreadable)
        /\ UNCHANGED <<disk, touched, stuck, entries, cursor, saved, gone, rows>>
        /\ beside \subseteq beside'
    BY <1>1, <1>10, BeginFields DEF Begin, state, server
  <2>2. ASSUME NEW n \in Name, LooksNew(run[t], n)' PROVE Live(rows, n) \/ Buried(n, cursor)
    <3>1. ~Known(n) /\ disk[n] # NoFile /\ n \notin Excused
      BY <2>1, <2>2 DEF LooksNew, Scan, Known, Excused
    <3> QED
      BY <3>1 DEF UploadInv, StrayExplained, Known
  <2> QED
    BY <1>4, <1>5, <2>1, <2>2 DEF Reported, Applied, Buried, Live
<1>11. CASE List(t)
  <2>1. /\ run'[t].pc = "diff" /\ HeldScan(t) /\ run[t].pc = "list"
        /\ run'[t].remote = [n \in Name |-> IdOf(rows, n)]
        /\ UNCHANGED <<disk, touched, stuck, beside, entries, cursor, saved, gone, rows>>
    BY <1>1, <1>11, BeginFields DEF List, state, server, watch, marks
  <2>2. ASSUME NEW n \in Name
        PROVE  /\ Listed(rows, gone, n, run'[t].remote[n])
               /\ run'[t].remote[n] = 0 => ~Live(rows, n)
    <3>1. run'[t].remote[n] = IdOf(rows, n)
      BY <2>1
    <3> QED
      BY <1>1, <3>1, ListedIds
  <2>3. \A n \in Name : LooksNew(run[t], n)' => LooksNew(run[t], n)
    BY <2>1 DEF LooksNew, Known, HeldScan, Excused
  <2> QED
    BY <1>4, <1>5, <2>1, <2>2, <2>3 DEF UploadInv, Reported, Applied, Buried
<1>12. CASE Diff(t)
  <2>1. /\ run'[t].pc = "reply" /\ HeldScan(t) /\ run[t].pc = "diff"
        /\ run'[t].deleted = DeleteActions(gone, cursor) /\ run'[t].remote = run[t].remote
        /\ UNCHANGED <<disk, touched, stuck, beside, entries, cursor, saved, gone, rows>>
    BY <1>1, <1>12, BeginFields DEF Diff, state, server, watch, marks
  <2>2. \A n : n \in run'[t].deleted <=> Buried(n, cursor)
    BY <2>1 DEF DeleteActions, Deleted, Buried
  <2>3. \A n \in Name : LooksNew(run[t], n)' => LooksNew(run[t], n)
    BY <2>1 DEF LooksNew, Known, HeldScan, Excused
  <2> QED
    BY <1>4, <1>5, <2>1, <2>2, <2>3 DEF UploadInv, Reported, Applied
<1>13. CASE Reply(t) \/ PassOver(t) \/ RecordConflict(t)
  <2>1. /\ run'[t].pc = "act" /\ HeldReport(t) /\ run[t].pc \in Reported
        /\ UNCHANGED <<disk, touched, stuck, beside, entries, cursor, saved, gone, rows>>
    BY <1>1, <1>13, BeginFields, ActionFields
    DEF Reply, PassOver, RecordConflict, Acting, HeldActions, Reported, state, server, watch, marks
  <2>2. \A n \in Name : LooksNew(run[t], n)' => LooksNew(run[t], n)
    BY <2>1 DEF LooksNew, Known, HeldReport, Excused
  <2> QED
    BY <1>4, <1>5, <2>1, <2>2 DEF HeldReport, UploadInv, Reported, Applied
<1>14. CASE ApplyDeletions(t)
  <2> DEFINE D == run[t].deleted
  <2>1. PICK S \in SUBSET {n \in D : disk[n] # NoFile} :
          /\ disk' = [n \in Name |-> IF n \in D \ S THEN NoFile ELSE disk[n]]
          /\ stuck' = (stuck \ D) \cup S
    BY <1>14 DEF ApplyDeletions
  <2>2. /\ run'[t].pc = "uploads" /\ HeldActions(t) /\ run[t].pc = "act"
        /\ entries' = [n \in Name |-> IF n \in D THEN Unknown ELSE entries[n]]
        /\ touched' = touched \ D /\ cursor' = run[t].newVersion
        /\ UNCHANGED <<saved, gone, rows, beside>>
    BY <1>1, <1>14, ActionFields DEF ApplyDeletions, server
  <2>3. \A n \in Name : n \notin D /\ Buried(n, cursor) => Buried(n, cursor')
    BY <1>2, <2>2 DEF GhostInv, Reported, Buried
  <2>4. ASSUME NEW n \in Name, disk'[n] # NoFile, n \notin Excused'
        PROVE  n \notin D /\ disk[n] # NoFile /\ n \notin Excused
    BY <2>1, <2>2, <2>4 DEF Excused
  <2>5. StrayExplained(entries, cursor)'
    <3>1. ASSUME NEW n \in Name, entries'[n] = Unknown, disk'[n] # NoFile, n \notin Excused'
          PROVE  Live(rows, n) \/ Buried(n, cursor')
      BY <2>2, <2>3, <2>4, <3>1 DEF UploadInv, StrayExplained
    <3> QED
      BY <2>2, <3>1 DEF StrayExplained, Buried, Live
  <2>6. StrayExplained(saved.entries, saved.cursor)'
    BY <2>2, <2>4 DEF UploadInv, StrayExplained, Buried, Live
  <2>7. ASSUME NEW n \in Name, LooksNew(run[t], n)', run[t].remote[n] = 0 PROVE n \in D
    <3>1. CASE n \notin D
      <4>1. LooksNew(run[t], n)
        BY <2>1, <2>2, <2>7, <3>1 DEF LooksNew, Known, HeldActions, HeldReport, Excused
      <4> QED
        BY <2>2, <2>7, <4>1 DEF UploadInv, Reported
    <3> QED
      BY <3>1
  <2> QED
    BY <1>4, <2>2, <2>5, <2>6, <2>7 DEF Reported, HeldActions, HeldReport
<1>15. CASE UploadNext(t)
  <2>1. /\ HeldActions(t) /\ run[t].pc = "uploads" /\ run'[t].name \in Name
        /\ Known(run'[t].name) \/ run'[t].remote[run'[t].name] = 0
        /\ run'[t].pc = IF Known(run'[t].name) THEN "replace" ELSE "upload"
        /\ UNCHANGED <<disk, touched, stuck, beside, entries, cursor, saved>>
    BY <1>1, <1>2, <1>15, UploadFields
    DEF UploadNext, Edited, New, HeldActions, HeldReport, state, watch, marks
  <2>2. \A n \in Name : LooksNew(run[t], n)' => LooksNew(run[t], n)
    BY <2>1 DEF LooksNew, Known, HeldActions, HeldReport, Excused
  <2>3. run'[t].pc = "replace" => Known(run[t].name)'
    BY <2>1 DEF Known
  <2>4. run'[t].pc = "upload" => run'[t].remote[run'[t].name] = 0
    BY <2>1
  <2>5. run'[t].pc \in {"replace", "upload"}
    BY <2>1
  <2> QED
    BY <1>4, <1>5, <2>1, <2>2, <2>3, <2>4, <2>5
    DEF HeldActions, HeldReport, UploadInv, Reported, Applied
<1>16. CASE Replace(t) \/ EndUploads(t)
  <2>1. /\ HeldActions(t) /\ run[t].pc \in {"replace", "uploads"}
        /\ run'[t].pc = "removals" \/ (run[t].pc = "replace" /\ run'[t].pc = "upload"
                                       /\ run'[t].name = run[t].name)
        /\ UNCHANGED <<disk, touched, stuck, beside, entries, cursor, saved>>
    BY <1>1, <1>16, UploadFields DEF Replace, EndUploads, state, watch, marks
  <2>2. \A n \in Name : LooksNew(run[t], n)' => LooksNew(run[t], n)
    BY <2>1 DEF LooksNew, Known, HeldActions, HeldReport, Excused
  <2>3. run'[t].pc = "upload" => Known(run[t].name)'
    BY <2>1 DEF UploadInv, Known
  <2> QED
    BY <1>4, <1>5, <2>1, <2>2, <2>3 DEF HeldActions, HeldReport, UploadInv, Reported, Applied
<1>17. CASE Upload(t)
  <2> DEFINE m == run[t].name
  <2>1. /\ run'[t].pc = "uploaded" /\ run'[t].name = m /\ HeldActions(t) /\ run[t].pc = "upload"
        /\ UNCHANGED <<disk, entries, cursor, saved>> /\ ServerCreate(m, disk[m])
    BY <1>1, <1>17, UploadFields DEF Upload, state
  <2>2. \A n : n # m /\ n \notin Excused' => n \notin Excused
    BY <1>17 DEF Upload, SyncedByRun, SyncedNow, Excused
  <2>3. Live(rows', m)
    BY <1>2, <2>1, CreatedIsLive
  <2> HIDE DEF m
  <2>4. ASSUME NEW n \in Name, disk[n] # NoFile, n \notin Excused'
        PROVE  /\ entries[n] = Unknown
                    => Live(rows', n) \/ \E g \in gone' : g.name = n /\ g.version > cursor
               /\ saved.entries[n] = Unknown
                    => Live(rows', n) \/ \E g \in gone' : g.name = n /\ g.version > saved.cursor
    <3>1. CASE n = m
      BY <2>3, <3>1
    <3>2. CASE n # m
      <4>1. n \notin Excused
        BY <2>2, <2>4, <3>2
      <4>2. /\ entries[n] = Unknown => Live(rows, n) \/ Buried(n, cursor)
            /\ saved.entries[n] = Unknown => Live(rows, n) \/ Buried(n, saved.cursor)
        BY <2>4, <4>1 DEF UploadInv, StrayExplained
      <4> QED
        BY <1>3, <4>2
    <3> QED
      BY <3>1, <3>2
  <2>5. StrayExplained(entries, cursor)' /\ StrayExplained(saved.entries, saved.cursor)'
    BY <2>1, <2>4 DEF StrayExplained, Buried
  <2>6. \A n \in Name : LooksNew(run[t], n)' => n = m \/ LooksNew(run[t], n)
    BY <2>1, <2>2 DEF LooksNew, Known, HeldActions, HeldReport
  <2> QED
    BY <1>4, <2>1, <2>5, <2>6 DEF HeldActions, HeldReport, UploadInv, Reported, Applied
<1>18. CASE Uploaded(t)
  <2> DEFINE m == run[t].name  e == [id |-> run[t].id, content |-> run[t].scan[m]]
  <2>1. /\ run'[t].pc = "uploads" /\ run[t].pc = "uploaded" /\ HeldActions(t)
        /\ entries' = [entries EXCEPT ![m] = e]
        /\ UNCHANGED <<disk, touched, stuck, beside, cursor, saved, gone, rows>>
    BY <1>1, <1>18, UploadFields DEF Uploaded, watch, marks, server
  <2>2. run[t].scan[m] # NoFile
    BY <2>1 DEF Basics, PlanInv, Planned, Sending, ToSend
  <2>3. e # Unknown
    BY <2>2, Recorded
  <2> HIDE DEF e
  <2>4. entries'[m] # Unknown /\ \A n \in Name \ {m} : entries'[n] = entries[n]
    BY <1>2, <2>1, <2>3
  <2> HIDE DEF m
  <2>5. StrayExplained(entries, cursor)' /\ StrayExplained(saved.entries, saved.cursor)'
    BY <2>1, <2>4 DEF UploadInv, StrayExplained, Live, Buried, Excused
  <2>6. \A n \in Name : LooksNew(run[t], n)' => n # m /\ LooksNew(run[t], n)
    BY <2>1, <2>4 DEF LooksNew, Known, HeldActions, HeldReport, Excused
  <2> QED
    BY <1>4, <2>1, <2>5, <2>6 DEF m, HeldActions, HeldReport, UploadInv, Reported, Applied
<1>19. CASE RemoveRemote(t)
  <2>1. /\ run'[t].pc = "removals" /\ run[t].pc = "removals"
        /\ UNCHANGED <<disk, touched, stuck, beside, cursor, saved>>
    BY <1>1, <1>19, UploadFields DEF RemoveRemote, marks
  <2>2. ASSUME NEW n \in Name, entries'[n] = Unknown, n \notin Excused PROVE entries[n] = Unknown
    <3>1. CASE n \in run[t].left /\ Known(n)
      BY <2>1, <2>2, <3>1
      DEF LooksRemoved, Basics, PlanInv, Planned, Missing, RemovalInv, Applied, Excused
    <3>2. CASE ~(n \in run[t].left /\ Known(n))
      BY <1>2, <1>19, <2>2, <3>2 DEF RemoveRemote, Known
    <3> QED
      BY <3>1, <3>2
  <2>3. ASSUME NEW n \in Name, disk[n] # NoFile, n \notin Excused
        PROVE  /\ entries'[n] = Unknown
                    => Live(rows', n) \/ \E g \in gone' : g.name = n /\ g.version > cursor
               /\ saved.entries[n] = Unknown
                    => Live(rows', n) \/ \E g \in gone' : g.name = n /\ g.version > saved.cursor
    <3>1. /\ entries'[n] = Unknown => Live(rows, n) \/ Buried(n, cursor)
          /\ saved.entries[n] = Unknown => Live(rows, n) \/ Buried(n, saved.cursor)
      BY <2>2, <2>3 DEF UploadInv, StrayExplained
    <3> QED
      BY <1>3, <3>1
  <2>4. StrayExplained(entries, cursor)' /\ StrayExplained(saved.entries, saved.cursor)'
    BY <2>1, <2>3 DEF StrayExplained, Buried, Excused
  <2> QED
    BY <1>4, <2>1, <2>4 DEF Reported, Applied
<1>20. CASE Finish(t)
  <2>1. /\ run'[t].pc = "idle" /\ saved'.cursor = cursor /\ saved'.entries = entries
        /\ UNCHANGED <<disk, touched, stuck, beside, cursor, entries, gone, rows>>
    BY <1>1, <1>20, BeginFields DEF Finish, state, server, watch, marks
  <2>2. StrayExplained(entries, cursor)' /\ StrayExplained(saved.entries, saved.cursor)'
    BY <2>1 DEF UploadInv, StrayExplained, Live, Buried, Excused
  <2> QED
    BY <1>4, <2>1, <2>2 DEF Reported, Applied
<1> QED
  BY <1>7, <1>8, <1>9, <1>10, <1>11, <1>12, <1>13, <1>14, <1>15, <1>16, <1>17, <1>18, <1>19, <1>20
  DEF Reconcile

LEMMA StraysNext ==
  ASSUME Basics, Basics', Apart, GhostInv, RemovalInv, UploadInv, [Next]_vars
  PROVE  UploadInv'
<1>1. CASE UNCHANGED vars
  BY <1>1 DEF vars, UploadInv, StrayExplained, LooksNew, Known, Buried, Live, Excused
<1>2. CASE \E t \in Trigger : Reconcile(t) \/ RunFails(t)
  BY <1>2, ReconcileUploads, NextAdvances DEF Next
<1>3. ASSUME NEW n \in Name, Resolution(n) \/ World(n)
      PROVE  /\ UNCHANGED <<run, cursor>> /\ Advances
             /\ \A k : Live(rows, k) \/ Buried(k, cursor)
                         => Live(rows', k) \/ \E g \in gone' : g.name = k /\ g.version > cursor
             /\ \A k : Live(rows, k) \/ Buried(k, saved.cursor)
                         => Live(rows', k) \/ \E g \in gone' : g.name = k /\ g.version > saved.cursor
             /\ \A k : Buried(k, cursor) => \E g \in gone' : g.name = k /\ g.version > cursor
             /\ \A k, id : Listed(rows, gone, k, id) => Listed(rows', gone', k, id)
  <2>1. UNCHANGED <<run, cursor>> /\ Advances
    BY <1>3, OnlyRunsStep, NextAdvances DEF Next
  <2>2. cursor \in Nat /\ saved.cursor \in Nat /\ saved.cursor <= cursor
    BY Numbers
  <2>3. /\ \A k : Live(rows, k) \/ Buried(k, cursor)
                    => Live(rows', k) \/ \E g \in gone' : g.name = k /\ g.version > cursor
        /\ \A k : Live(rows, k) \/ Buried(k, saved.cursor)
                    => Live(rows', k) \/ \E g \in gone' : g.name = k /\ g.version > saved.cursor
    BY <2>1, <2>2, StillExplained
  <2>4. \A k : Buried(k, cursor) => \E g \in gone' : g.name = k /\ g.version > cursor
    BY <2>1, BuriedStays
  <2>5. \A k, id : Listed(rows, gone, k, id) => Listed(rows', gone', k, id)
    BY <2>1, ListedStays
  <2> QED
    BY <2>1, <2>3, <2>4, <2>5
\* All but the name m, if any, is as it was or excused.
<1>4. ASSUME NEW n \in Name, Resolution(n) \/ World(n), NEW M \in SUBSET Name,
             \A k \in Name \ M : /\ entries'[k] = entries[k]
                                 /\ k \notin Excused' => k \notin Excused /\ disk'[k] = disk[k],
             \A k \in M : entries'[k] # Unknown \/ Live(rows', k),
             \A k \in Name : entries'[k] # Unknown \/ entries'[k] = entries[k],
             (\E t \in Trigger : run[t].pc # "idle") => M \subseteq beside',
             \/ /\ saved' = saved
                /\ \A k \in M : Live(rows', k) \/ (disk'[k] = disk[k] /\ (k \notin Excused' => k \notin Excused))
             \/ saved'.entries = entries' /\ saved'.cursor = cursor'
      PROVE  UploadInv'
  <2>1. /\ UNCHANGED <<run, cursor>>
        /\ \A k : Live(rows, k) \/ Buried(k, cursor)
                    => Live(rows', k) \/ \E g \in gone' : g.name = k /\ g.version > cursor
        /\ \A k : Live(rows, k) \/ Buried(k, saved.cursor)
                    => Live(rows', k) \/ \E g \in gone' : g.name = k /\ g.version > saved.cursor
        /\ \A k : Buried(k, cursor) => \E g \in gone' : g.name = k /\ g.version > cursor
        /\ \A k, id : Listed(rows, gone, k, id) => Listed(rows', gone', k, id)
    BY <1>3, <1>4
  <2>2. StrayExplained(entries, cursor)'
    <3>1. ASSUME NEW k \in Name, disk'[k] # NoFile, entries'[k] = Unknown, k \notin Excused'
          PROVE  Live(rows', k) \/ \E g \in gone' : g.name = k /\ g.version > cursor
      <4>1. CASE k \in M
        BY <1>4, <3>1, <4>1
      <4>2. CASE k \notin M
        <5>1. disk[k] # NoFile /\ entries[k] = Unknown /\ k \notin Excused
          BY <1>4, <3>1, <4>2
        <5>2. Live(rows, k) \/ Buried(k, cursor)
          BY <5>1 DEF UploadInv, StrayExplained
        <5> QED
          BY <2>1, <5>2
      <4> QED
        BY <4>1, <4>2
    <3> QED
      BY <2>1, <3>1 DEF StrayExplained, Buried
  <2>3. StrayExplained(saved.entries, saved.cursor)'
    <3>1. CASE saved'.entries = entries' /\ saved'.cursor = cursor'
      BY <2>2, <3>1 DEF StrayExplained, Buried
    <3>2. CASE /\ saved' = saved
               /\ \A k \in M : Live(rows', k)
                               \/ (disk'[k] = disk[k] /\ (k \notin Excused' => k \notin Excused))
      <4>1. ASSUME NEW k \in Name, disk'[k] # NoFile, saved.entries[k] = Unknown, k \notin Excused'
            PROVE  Live(rows', k) \/ \E g \in gone' : g.name = k /\ g.version > saved.cursor
        <5>1. Live(rows', k) \/ (disk[k] # NoFile /\ k \notin Excused)
          BY <1>4, <3>2, <4>1
        <5>2. disk[k] # NoFile /\ k \notin Excused => Live(rows, k) \/ Buried(k, saved.cursor)
          BY <4>1 DEF UploadInv, StrayExplained
        <5> QED
          BY <2>1, <5>1, <5>2
      <4> QED
        BY <3>2, <4>1 DEF StrayExplained, Buried
    <3> QED
      BY <1>4, <3>1, <3>2
  <2>4. ASSUME NEW t \in Trigger
        PROVE  /\ run[t].pc = "replace" => Known(run[t].name)'
               /\ run[t].pc = "upload" /\ ~Known(run[t].name)' => run[t].remote[run[t].name] = 0
               /\ run[t].pc \in {"diff"} \cup Reported =>
                    \A k \in Name : Listed(rows', gone', k, run[t].remote[k])
    <3>1. run[t].name \in Name
      BY Numbers
    <3>2. Known(run[t].name) => Known(run[t].name)'
      BY <1>4, <2>1, <3>1 DEF Known
    <3> QED
      BY <2>1, <3>2 DEF UploadInv
  <2>5. ASSUME NEW t \in Trigger, NEW k \in Name, LooksNew(run[t], k)', run[t].pc # "idle"
        PROVE  /\ LooksNew(run[t], k)
               /\ run[t].pc = "list" => Live(rows, k)' \/ Buried(k, cursor)'
               /\ run[t].pc = "diff" /\ run[t].remote[k] = 0 => Buried(k, cursor)'
    <3>1. k \notin M
      BY <1>4, <2>5 DEF LooksNew, Excused
    <3>2. LooksNew(run[t], k)
      BY <1>4, <2>1, <2>5, <3>1 DEF LooksNew, Known
    <3>3. /\ run[t].pc = "list" => Live(rows, k) \/ Buried(k, cursor)
          /\ run[t].pc = "diff" /\ run[t].remote[k] = 0 => Buried(k, cursor)
      BY <3>2 DEF UploadInv
    <3>4. /\ run[t].pc = "list"
               => Live(rows', k) \/ \E g \in gone' : g.name = k /\ g.version > cursor
          /\ run[t].pc = "diff" /\ run[t].remote[k] = 0
               => \E g \in gone' : g.name = k /\ g.version > cursor
      BY <2>1, <3>3
    <3> QED
      BY <2>1, <3>2, <3>4 DEF Buried, Live
  <2>6. \A t \in Trigger : run[t].pc = "idle" =>
          run[t].pc \notin {"list", "diff", "replace", "upload"} \cup Reported \cup Applied
    BY DEF Reported, Applied
  <2>7. ASSUME NEW t \in Trigger, NEW k \in Name, LooksNew(run[t], k)'
        PROVE  /\ run[t].pc = "list" => Live(rows, k)' \/ Buried(k, cursor)'
               /\ run[t].pc = "diff" /\ run[t].remote[k] = 0 => Buried(k, cursor)'
               /\ run[t].pc \in Reported \cup (Applied \ {"removals"}) /\ run[t].remote[k] = 0
                    => k \in run[t].deleted \/ (run[t].pc = "uploaded" /\ k = run[t].name)
    <3>1. CASE run[t].pc = "idle"
      BY <2>6, <3>1
    <3>2. CASE run[t].pc # "idle"
      BY <2>5, <2>7, <3>2 DEF UploadInv
    <3> QED
      BY <3>1, <3>2
  <2> QED
    BY <2>1, <2>2, <2>3, <2>4, <2>7 DEF UploadInv
<1>5. ASSUME NEW n \in Name, Resolution(n) \/ World(n), Harmless PROVE UploadInv'
  <2> DEFINE M == {}
  <2>1. \A k \in Name : /\ entries'[k] = entries[k]
                        /\ k \notin Excused' => k \notin Excused /\ disk'[k] = disk[k]
    BY <1>5 DEF Harmless, Excused
  <2>2. saved' = saved /\ M \in SUBSET Name
    BY <1>5 DEF Harmless
  <2> QED
    BY <1>4, <1>5, <2>1, <2>2
<1>6. ASSUME NEW n \in Name, Resolution(n), NEW m \in InResolution \cap Name,
             Uploads(m) \/ Records(m)
      PROVE  UploadInv'
  <2> DEFINE M == {m}
  <2>1. M \in SUBSET Name /\ ((\E t \in Trigger : run[t].pc # "idle") => M \subseteq beside')
    BY <1>6 DEF Apart, Uploads, Records
  <2>2. \A k \in Name \ M : /\ entries'[k] = entries[k]
                            /\ k \notin Excused' => k \notin Excused /\ disk'[k] = disk[k]
    BY <1>6 DEF Uploads, Records, Excused
  <2>3. /\ \A k \in M : entries'[k] # Unknown \/ Live(rows', k)
        /\ \A k \in Name : entries'[k] # Unknown \/ entries'[k] = entries[k]
    BY <1>6 DEF Uploads, Records
  <2>4. \/ /\ saved' = saved
           /\ \A k \in M : Live(rows', k) \/ (disk'[k] = disk[k] /\ (k \notin Excused' => k \notin Excused))
        \/ saved'.entries = entries' /\ saved'.cursor = cursor'
    BY <1>6 DEF Uploads, Records, Excused
  <2> HIDE DEF M
  <2> QED
    BY <1>4, <1>6, <2>1, <2>2, <2>3, <2>4
<1>7. CASE Restart
  BY <1>7, Shapes
  DEF Restart, UploadInv, StrayExplained, Buried, Live, Reported, Applied, server, Excused, marks
<1> QED
  BY <1>1, <1>2, <1>5, <1>6, <1>7, ResolutionEffects, WorldEffects DEF Next

\* A file the client has no record of is uploaded only if the user put it into
\* the folder, its removal failed, or a resolution worked on the name while a run
\* was under way: never otherwise one that was downloaded before a run failed or
\* the app was quit, nor one deleted on another device since.
THEOREM UploadsAreMeant == Spec => NothingResurrected
<1> DEFINE P == \A t \in Trigger :
                  run[t].pc = "upload" /\ run'[t].pc = "uploaded" /\ ~Known(run[t].name)
                    => run[t].name \in touched \cup stuck \cup beside
<1>1. Basics /\ UploadInv /\ [Next]_vars => [P]_vars
  <2> SUFFICES ASSUME Basics, UploadInv, NEW t \in Trigger, run[t].pc = "upload",
                      ~Known(run[t].name)
               PROVE  run[t].name \in Excused
    BY DEF Excused
  <2> DEFINE n == run[t].name
  <2>1. n \in Name /\ run[t].scan[n] # NoFile /\ n \notin run[t].deleted
    BY DEF Basics, TypeOK, Run, PlanInv, Planned, Sending, ToSend
  <2>2. LooksNew(run[t], n) => n \in run[t].deleted
    BY <2>1 DEF UploadInv, Applied
  <2> QED
    BY <2>1, <2>2 DEF LooksNew
<1>2. Init => UploadInv
  BY Shapes DEF Init, ServerInit, UploadInv, StrayExplained, NoManifest, Reported, Applied
<1>3. Basics /\ Basics' /\ Apart /\ GhostInv /\ RemovalInv /\ UploadInv /\ [Next]_vars => UploadInv'
  BY StraysNext
<1>4. Spec => [][P]_vars
  BY <1>1, <1>2, <1>3, SafeAlways, PTL DEF Spec
<1> QED
  BY <1>4 DEF NothingResurrected
=============================================================================
