------------------------------ MODULE SyncClient ------------------------------
(***************************************************************************)
(* Folder sync of the desktop client (SyncViewModel) against one user's    *)
(* files on the server, while the user works in the folder and another     *)
(* device changes the files.                                               *)
(*                                                                         *)
(* reconcile() and the resolve functions run on the main actor and give it *)
(* up at every await.  A step of a run is what happens from one await to   *)
(* the next; a call is two steps, served and answered, wherever it matters *)
(* what happens in between.  The user, the other device and a crash may    *)
(* come between any two steps, and resolutions at every await of a run.    *)
(***************************************************************************)
EXTENDS SyncServer

CONSTANTS
  Trigger,   \* callers of reconcile(): the poll loop and the folder watcher
  CopyName,  \* for each name people use, the name of its conflict copy
  Moves,     \* of {"create", "edit", "remove", "reuse", "put", "drop",
             \*     "resolve", "keepBoth", "unreadable", "stuck", "netFail", "restart"}
  MaxMoves   \* bound: steps of the user, the other device and the faults

ASSUME SyncClientAssumption ==
  /\ DOMAIN CopyName \subseteq Name
  /\ \A n \in DOMAIN CopyName : CopyName[n] \in Name \ {n}
  /\ MaxMoves \in Nat

VARIABLES
  disk,       \* the folder
  cursor,     \* state.lastSyncedVersion
  entries,    \* state.entries
  conflicts,  \* conflicts: the remote id by name, 0 for no conflict
  saved,      \* the sidecar file: cursor and entries as last saved
  isSyncing,
  run,        \* what each caller of reconcile() is doing
  resolve,    \* the conflict resolutions under way, by the conflict's name
  \* For the properties:
  touched,    \* names the user changed since the client last synced them
  stuck,      \* names of files that could not be removed, not synced since
  beside,     \* names a resolution worked on during a run, not synced by one since
  obeyed,     \* names with a live file, removed from the folder for an older deletion
  pending,    \* conflicts shown to the user that no resolution has settled
  moves       \* steps counted against MaxMoves

state == <<cursor, entries>>
marks == <<touched, stuck, beside, obeyed>>
watch == <<marks, pending, moves>>

vars == <<disk, rows, gone, clock, cursor, entries, conflicts, saved,
          isSyncing, run, resolve, touched, stuck, beside, obeyed, pending, moves>>

Unknown == [id |-> 0, content |-> NoFile]

Entry == [id: Nat, content: Content] \cup {Unknown}

Known(n) == entries[n] # Unknown

\* Names people give to files; the others come about by renaming.
PlainName == DOMAIN CopyName

NoManifest == [n \in Name |-> NoFile]

IdleRun ==
  [pc |-> "idle", scan |-> NoManifest, unreadable |-> {},
   remote |-> [n \in Name |-> 0], changed |-> {}, deleted |-> {}, newVersion |-> 0,
   conflicted |-> {}, downloaded |-> {}, left |-> {}, name |-> CHOOSE n \in Name : TRUE,
   id |-> 0]

IdleResolve == [pc |-> "idle", id |-> 0, created |-> 0]

Init ==
  /\ disk = NoManifest
  /\ ServerInit
  /\ cursor = 0 /\ entries = [n \in Name |-> Unknown]
  /\ conflicts = [n \in Name |-> 0]
  /\ saved = [cursor |-> 0, entries |-> [n \in Name |-> Unknown]]
  /\ isSyncing = FALSE
  /\ run = [t \in Trigger |-> IdleRun]
  /\ resolve = [n \in Name |-> IdleResolve]
  /\ touched = {} /\ stuck = {} /\ beside = {} /\ obeyed = {} /\ pending = {} /\ moves = 0

\* Counts a step that is not the client's own.
Move(kind) == kind \in Moves /\ moves < MaxMoves /\ moves' = moves + 1

\* try? await api.deleteFile: the client goes on whether or not it arrived.
TryDelete(id) ==
  \/ ServerDelete(id) /\ UNCHANGED moves
  \/ Move("netFail") /\ UNCHANGED server

-----------------------------------------------------------------------------
(* reconcile(): the calls up to the diff *)

Step(t, r) == run' = [run EXCEPT ![t] = r]

Go(t, pc) == Step(t, [run[t] EXCEPT !.pc = pc])


\* Also where an error is thrown: memory keeps what the run did so far.
EndRun(t) == Step(t, IdleRun) /\ isSyncing' = FALSE

\* The names the resolution of n works on while it is at pc.
WorkedOn(n, pc) ==
  {m \in Name : pc # "idle" /\ m = n}
    \cup {m \in Name : pc \in {"copyUpload", "copyDone", "copyFetch", "copyFetched"}
                      /\ n \in PlainName /\ m = CopyName[n]}

InResolution == UNION {WorkedOn(n, resolve[n].pc) : n \in Name}

\* FolderScanner.scan: the folder without the files it could not read.
Scan(U) == [n \in Name |-> IF n \in U THEN NoFile ELSE disk[n]]

Begin(t) ==
  /\ run[t].pc = "idle" /\ ~isSyncing
  /\ isSyncing' = TRUE
  /\ beside' = beside \cup InResolution
  /\ \E U \in SUBSET {n \in Name : disk[n] # NoFile} :
       /\ IF U = {} THEN UNCHANGED moves ELSE Move("unreadable")
       /\ Step(t, [IdleRun EXCEPT !.pc = "list", !.unreadable = U, !.scan = Scan(U)])
  /\ UNCHANGED <<disk, server, state, conflicts, saved, resolve, touched, stuck, obeyed, pending>>

List(t) ==
  /\ run[t].pc = "list"
  /\ Step(t, [run[t] EXCEPT !.pc = "diff", !.remote = [n \in Name |-> IdOf(rows, n)]])
  /\ UNCHANGED <<disk, server, state, conflicts, saved, isSyncing, resolve, watch>>

Diff(t) ==
  /\ run[t].pc = "diff"
  /\ Step(t, [run[t] EXCEPT !.pc = "reply",
                !.changed = ChangeActions(rows, cursor, run[t].scan),
                !.deleted = DeleteActions(gone, cursor),
                !.newVersion = NewVersion(rows, gone, cursor)])
  /\ UNCHANGED <<disk, server, state, conflicts, saved, isSyncing, resolve, watch>>

\* Mutant of OpenConflicts: conflicts of earlier runs are forgotten.
NoConflicts == {}

OpenConflicts == {n \in Name : conflicts[n] # 0}

Reply(t) ==
  /\ run[t].pc = "reply"
  /\ Step(t, [run[t] EXCEPT !.pc = "act", !.conflicted = OpenConflicts])
  /\ UNCHANGED <<disk, server, state, conflicts, saved, isSyncing, resolve, watch>>

-----------------------------------------------------------------------------
(* reconcile(): the server's actions, in the order of their versions *)

NextAction(t) ==
  CHOOSE a \in run[t].changed : \A b \in run[t].changed : a.version <= b.version

Acting(t) == run[t].pc = "act" /\ run[t].changed # {}

Remaining(t) == run[t].changed \ {NextAction(t)}

\* The folder and the server agree on a name.
SyncedNow(n) == touched' = touched \ {n} /\ stuck' = stuck \ {n}

\* And a run made them.
SyncedByRun(n) == SyncedNow(n) /\ beside' = beside \ ({n} \ InResolution)

\* The row to fetch comes from the listing, not from the action.
Download(t) ==
  LET id == run[t].remote[NextAction(t).name] IN
  /\ Acting(t) /\ NextAction(t).action = "download" /\ id # 0
  /\ IF Exists(id)
     THEN Step(t, [run[t] EXCEPT !.pc = "fetched", !.id = id]) /\ UNCHANGED isSyncing
     ELSE EndRun(t)
  /\ UNCHANGED <<disk, server, state, conflicts, saved, resolve, watch>>

Downloaded(t) ==
  LET n == NextAction(t).name
      id == run[t].id
  IN
  /\ run[t].pc = "fetched"
  /\ disk' = [disk EXCEPT ![n] = ContentOf(id)]
  /\ entries' = [entries EXCEPT ![n] = [id |-> id, content |-> ContentOf(id)]]
  /\ SyncedByRun(n)
  /\ Step(t, [run[t] EXCEPT !.pc = "act", !.changed = Remaining(t), !.downloaded = @ \cup {n}])
  /\ UNCHANGED <<server, cursor, conflicts, saved, isSyncing, resolve, obeyed, pending, moves>>

\* Mutant of PassOver: files the listing has are passed over too.
PassOverListed(t) ==
  /\ Acting(t)
  /\ NextAction(t).action = "conflict" => ~Known(NextAction(t).name)
  /\ Step(t, [run[t] EXCEPT !.changed = Remaining(t)])
  /\ UNCHANGED <<disk, server, state, conflicts, saved, isSyncing, resolve, watch>>

\* A file the listing did not have, for a download or for a conflict that is
\* not of a known file either, is passed over.
PassOver(t) ==
  LET a == NextAction(t) IN
  /\ Acting(t) /\ run[t].remote[a.name] = 0
  /\ a.action = "conflict" => ~Known(a.name)
  /\ Step(t, [run[t] EXCEPT !.changed = Remaining(t)])
  /\ UNCHANGED <<disk, server, state, conflicts, saved, isSyncing, resolve, watch>>

RecordConflict(t) ==
  LET n == NextAction(t).name
      id == IF run[t].remote[n] # 0 THEN run[t].remote[n] ELSE entries[n].id
  IN
  /\ Acting(t) /\ NextAction(t).action = "conflict" /\ id # 0
  /\ conflicts' = [conflicts EXCEPT ![n] = id]
  /\ pending' = pending \cup {n}
  /\ Step(t, [run[t] EXCEPT !.changed = Remaining(t), !.conflicted = @ \cup {n}])
  /\ UNCHANGED <<disk, server, state, saved, isSyncing, resolve, marks, moves>>

ToUpload(t) ==
  {n \in Name : run[t].scan[n] # NoFile} \ (run[t].deleted \cup run[t].conflicted)

\* No await between the deletions, which come last, and the new cursor.  A file
\* that cannot be removed stays and is forgotten all the same (try?).
ApplyDeletions(t) ==
  LET D == run[t].deleted IN
  /\ run[t].pc = "act" /\ run[t].changed = {}
  /\ \E S \in SUBSET {n \in D : disk[n] # NoFile} :
       /\ IF S = {} THEN UNCHANGED moves ELSE Move("stuck")
       /\ disk' = [n \in Name |-> IF n \in D \ S THEN NoFile ELSE disk[n]]
       /\ stuck' = (stuck \ D) \cup S
  /\ touched' = touched \ D
  /\ obeyed' = (obeyed \ D)
               \cup {n \in D : \E r \in rows : r.name = n /\ r.version <= run[t].newVersion}
  /\ entries' = [n \in Name |-> IF n \in D THEN Unknown ELSE entries[n]]
  /\ cursor' = run[t].newVersion
  /\ Step(t, [run[t] EXCEPT !.pc = "uploads", !.left = ToUpload(t)])
  /\ UNCHANGED <<server, conflicts, saved, isSyncing, resolve, beside, pending>>

-----------------------------------------------------------------------------
(* reconcile(): local changes *)

Edited(t, n) == Known(n) /\ entries[n].content # run[t].scan[n]

\* Mutant of New: the listing is not consulted.
Unrecorded(t, n) == ~Known(n)

New(t, n) == ~Known(n) /\ run[t].remote[n] = 0

\* The order is that of a dictionary; names that need nothing come last.
UploadNext(t) ==
  /\ run[t].pc = "uploads"
  /\ \E n \in run[t].left :
       /\ Edited(t, n) \/ New(t, n)
       /\ Step(t, [run[t] EXCEPT !.pc = IF Known(n) THEN "replace" ELSE "upload",
                     !.left = @ \ {n}, !.name = n])
  /\ UNCHANGED <<disk, server, state, conflicts, saved, isSyncing, resolve, watch>>

Replace(t) ==
  /\ run[t].pc = "replace"
  /\ TryDelete(entries[run[t].name].id)
  /\ Go(t, "upload")
  /\ UNCHANGED <<disk, state, conflicts, saved, isSyncing, resolve, marks, pending>>

\* Sends the file as it is now, which the scan may not have seen.
Upload(t) ==
  LET n == run[t].name IN
  /\ run[t].pc = "upload" /\ disk[n] # NoFile
  /\ ServerCreate(n, disk[n])
  /\ Step(t, [run[t] EXCEPT !.pc = "uploaded", !.id = clock + 1])
  /\ IF disk[n] = run[t].scan[n] THEN SyncedByRun(n) ELSE UNCHANGED <<touched, stuck, beside>>
  /\ UNCHANGED <<disk, state, conflicts, saved, isSyncing, resolve, obeyed, pending, moves>>

\* The file to upload cannot be opened any more.
UploadThrows(t) ==
  /\ run[t].pc = "upload" /\ disk[run[t].name] = NoFile
  /\ EndRun(t)
  /\ UNCHANGED <<disk, server, state, conflicts, saved, resolve, watch>>

Uploaded(t) ==
  LET n == run[t].name IN
  /\ run[t].pc = "uploaded"
  /\ entries' = [entries EXCEPT ![n] = [id |-> run[t].id, content |-> run[t].scan[n]]]
  /\ Go(t, "uploads")
  /\ UNCHANGED <<disk, server, cursor, conflicts, saved, isSyncing, resolve, watch>>

\* Mutant of RemovedLocally: files this run has just downloaded count too.
RemovedOrDownloaded(t) ==
  {n \in Name : Known(n) /\ run[t].scan[n] = NoFile}
    \ (run[t].unreadable \cup run[t].conflicted)

RemovedLocally(t) ==
  {n \in Name : Known(n) /\ run[t].scan[n] = NoFile}
    \ (run[t].unreadable \cup run[t].conflicted \cup run[t].downloaded)

EndUploads(t) ==
  /\ run[t].pc = "uploads"
  /\ \A n \in run[t].left : ~Edited(t, n) /\ ~New(t, n)
  /\ Step(t, [run[t] EXCEPT !.pc = "removals", !.left = RemovedLocally(t)])
  /\ UNCHANGED <<disk, server, state, conflicts, saved, isSyncing, resolve, watch>>

RemoveRemote(t) ==
  /\ run[t].pc = "removals"
  /\ \E n \in run[t].left :
       /\ Step(t, [run[t] EXCEPT !.left = @ \ {n}])
       /\ IF Known(n)
          THEN /\ TryDelete(entries[n].id)
               /\ entries' = [entries EXCEPT ![n] = Unknown]
          ELSE UNCHANGED <<server, entries, moves>>
  /\ UNCHANGED <<disk, cursor, conflicts, saved, isSyncing, resolve, marks, pending>>

Finish(t) ==
  /\ run[t].pc = "removals" /\ run[t].left = {}
  /\ saved' = [cursor |-> cursor, entries |-> entries]
  /\ EndRun(t)
  /\ UNCHANGED <<disk, server, state, conflicts, resolve, watch>>

\* A call of the run fails, or is cancelled by stop() or by a newer event of
\* the watcher.  Deletions are sent with try? and do not end the run.
RunFails(t) ==
  /\ \/ run[t].pc \in {"list", "diff", "reply", "upload", "uploaded"}
     \/ Acting(t) /\ NextAction(t).action = "download"
  /\ Move("netFail")
  /\ EndRun(t)
  /\ UNCHANGED <<disk, server, state, conflicts, saved, resolve, marks, pending>>

-----------------------------------------------------------------------------
(* Resolving conflicts *)

\* The main actor is free: every run is idle or waits for the server.
Suspended(t) ==
  \/ run[t].pc \in {"idle", "list", "diff", "reply", "fetched", "replace", "upload", "uploaded"}
  \/ Acting(t) /\ NextAction(t).action = "download" /\ run[t].remote[NextAction(t).name] # 0
  \/ run[t].pc = "removals" /\ run[t].left # {}

MainActor == \A t \in Trigger : Suspended(t)

Resolving(n, pc) == resolve[n].pc = pc /\ MainActor

GoResolve(n, pc) == resolve' = [resolve EXCEPT ![n] = [@ EXCEPT !.pc = pc]]

EndResolve(n) == resolve' = [resolve EXCEPT ![n] = IdleResolve]

\* A button of the conflict: they are disabled while it is being resolved.
Button(n, kind) ==
  conflicts[n] # 0 /\ resolve[n].pc = "idle" /\ MainActor /\ Move(kind)

StartResolve(n, kind, pc) ==
  /\ Button(n, kind)
  /\ resolve' = [resolve EXCEPT ![n] = [pc |-> pc, id |-> conflicts[n], created |-> 0]]
  /\ beside' = IF isSyncing THEN beside \cup WorkedOn(n, pc) ELSE beside

\* The conflict is settled and everything known is saved.
Settle(n) ==
  /\ conflicts' = [conflicts EXCEPT ![n] = 0]
  /\ pending' = pending \ {n}
  /\ saved' = [cursor |-> cursor, entries |-> entries']
  /\ EndResolve(n)

KeepLocal(n) ==
  /\ StartResolve(n, "resolve", "localDelete")
  /\ UNCHANGED <<disk, server, state, conflicts, saved, isSyncing, run, touched, stuck, obeyed,
                 pending>>

KeepLocalDelete(n) ==
  /\ Resolving(n, "localDelete")
  /\ TryDelete(resolve[n].id)
  /\ GoResolve(n, "localUpload")
  /\ UNCHANGED <<disk, state, conflicts, saved, isSyncing, run, marks, pending>>

KeepLocalUpload(n) ==
  /\ Resolving(n, "localUpload") /\ disk[n] # NoFile
  /\ ServerCreate(n, disk[n])
  /\ resolve' = [resolve EXCEPT ![n] = [@ EXCEPT !.pc = "localDone", !.created = clock + 1]]
  /\ SyncedNow(n)
  /\ UNCHANGED <<disk, state, conflicts, saved, isSyncing, run, beside, obeyed, pending, moves>>

\* Reads the file again to record what was uploaded.
KeepLocalDone(n) ==
  /\ Resolving(n, "localDone") /\ disk[n] # NoFile
  /\ entries' = [entries EXCEPT ![n] = [id |-> resolve[n].created, content |-> disk[n]]]
  /\ Settle(n)
  /\ UNCHANGED <<disk, server, cursor, isSyncing, run, marks, moves>>

KeepRemote(n) ==
  /\ StartResolve(n, "resolve", "fetch")
  /\ UNCHANGED <<disk, server, state, conflicts, saved, isSyncing, run, touched, stuck, obeyed,
                 pending>>

\* The last two steps of both KeepRemote and KeepBoth.
FetchRemote(n) ==
  /\ Exists(resolve[n].id)
  /\ \/ Resolving(n, "fetch") /\ GoResolve(n, "fetched")
     \/ Resolving(n, "copyFetch") /\ GoResolve(n, "copyFetched")
  /\ UNCHANGED <<disk, server, state, conflicts, saved, isSyncing, run, watch>>

AdoptRemote(n) ==
  LET content == ContentOf(resolve[n].id) IN
  /\ Resolving(n, "fetched") \/ Resolving(n, "copyFetched")
  /\ disk' = [disk EXCEPT ![n] = content]
  /\ entries' = [entries EXCEPT ![n] = [id |-> resolve[n].id, content |-> content]]
  /\ SyncedNow(n)
  /\ Settle(n)
  /\ UNCHANGED <<server, cursor, isSyncing, run, beside, obeyed, moves>>

\* Copies the local file aside.
KeepBoth(n) ==
  LET copy == CopyName[n] IN
  /\ n \in PlainName /\ disk[n] # NoFile /\ disk[copy] = NoFile
  /\ StartResolve(n, "keepBoth", "copyUpload")
  /\ disk' = [disk EXCEPT ![copy] = disk[n]]
  /\ touched' = touched \cup {copy}
  /\ UNCHANGED <<server, state, conflicts, saved, isSyncing, run, stuck, obeyed, pending>>

\* A copy of the same day is there already, or there is nothing to copy: the
\* error path removes what is there.
KeepBothRefused(n) ==
  LET copy == CopyName[n] IN
  /\ n \in PlainName /\ (disk[n] = NoFile \/ disk[copy] # NoFile)
  /\ Button(n, "keepBoth")
  /\ disk' = [disk EXCEPT ![copy] = NoFile]
  /\ touched' = touched \cup {copy}
  /\ UNCHANGED <<server, state, conflicts, saved, isSyncing, run, resolve, stuck, beside, obeyed,
                 pending>>

KeepBothUpload(n) ==
  LET copy == CopyName[n] IN
  /\ Resolving(n, "copyUpload") /\ disk[copy] # NoFile
  /\ ServerCreate(copy, disk[copy])
  /\ resolve' = [resolve EXCEPT ![n] = [@ EXCEPT !.pc = "copyDone", !.created = clock + 1]]
  /\ SyncedNow(copy)
  /\ UNCHANGED <<disk, state, conflicts, saved, isSyncing, run, beside, obeyed, pending, moves>>

KeepBothDone(n) ==
  LET copy == CopyName[n] IN
  /\ Resolving(n, "copyDone") /\ disk[copy] # NoFile
  /\ entries' = [entries EXCEPT ![copy] = [id |-> resolve[n].created, content |-> disk[copy]]]
  /\ GoResolve(n, "copyFetch")
  /\ UNCHANGED <<disk, server, cursor, conflicts, saved, isSyncing, run, watch>>

\* What a step of a resolution needs is gone.
Lacks(n) ==
  \/ resolve[n].pc \in {"localUpload", "localDone"} /\ disk[n] = NoFile
  \/ resolve[n].pc \in {"copyUpload", "copyDone"} /\ disk[CopyName[n]] = NoFile
  \/ resolve[n].pc \in {"fetch", "copyFetch"} /\ ~Exists(resolve[n].id)

\* Or a call fails; KeepBoth takes its copy back.
ResolveFails(n) ==
  /\ MainActor
  /\ \/ Lacks(n) /\ UNCHANGED moves
     \/ /\ resolve[n].pc \in {"localUpload", "localDone", "fetch", "copyUpload", "copyDone", "copyFetch"}
        /\ Move("netFail")
  /\ IF resolve[n].pc \in {"copyUpload", "copyDone", "copyFetch"}
     THEN /\ disk' = [disk EXCEPT ![CopyName[n]] = NoFile]
          /\ touched' = touched \cup {CopyName[n]}
     ELSE UNCHANGED <<disk, touched>>
  /\ EndResolve(n)
  /\ UNCHANGED <<server, state, conflicts, saved, isSyncing, run, stuck, beside, obeyed, pending>>

-----------------------------------------------------------------------------
(* The user, the other device, and the app being quit *)

UserWrite(n, c) ==
  /\ disk[n] # c
  /\ IF disk[n] = NoFile THEN n \in PlainName /\ Move("create") ELSE Move("edit")
  /\ "reuse" \in Moves \/ disk[n] # NoFile \/ Fresh(n)
  /\ disk' = [disk EXCEPT ![n] = c]
  /\ touched' = touched \cup {n}
  /\ UNCHANGED <<server, state, conflicts, saved, isSyncing, run, resolve, stuck, beside, obeyed,
                 pending>>

UserRemove(n) ==
  /\ disk[n] # NoFile
  /\ Move("remove")
  /\ disk' = [disk EXCEPT ![n] = NoFile]
  /\ touched' = touched \cup {n}
  /\ UNCHANGED <<server, state, conflicts, saved, isSyncing, run, resolve, stuck, beside, obeyed,
                 pending>>

DevicePut(n, c) ==
  /\ n \in PlainName /\ ~Live(rows, n)
  /\ Move("put")
  /\ "reuse" \in Moves \/ Fresh(n)
  /\ ServerCreate(n, c)
  /\ UNCHANGED <<disk, state, conflicts, saved, isSyncing, run, resolve, marks, pending>>

DeviceDrop(n) ==
  /\ Live(rows, n)
  /\ Move("drop")
  /\ ServerDelete(IdOf(rows, n))
  /\ UNCHANGED <<disk, state, conflicts, saved, isSyncing, run, resolve, marks, pending>>

\* Only the sidecar file survives; conflicts are not in it and no longer shown.
Restart ==
  /\ Move("restart")
  /\ cursor' = saved.cursor /\ entries' = saved.entries
  /\ conflicts' = [n \in Name |-> 0]
  /\ isSyncing' = FALSE
  /\ run' = [t \in Trigger |-> IdleRun]
  /\ resolve' = [n \in Name |-> IdleResolve]
  /\ pending' = {}
  /\ UNCHANGED <<disk, server, saved, marks>>

Reconcile(t) ==
  \/ Begin(t) \/ List(t) \/ Diff(t) \/ Reply(t)
  \/ Download(t) \/ Downloaded(t) \/ PassOver(t) \/ RecordConflict(t) \/ ApplyDeletions(t)
  \/ UploadNext(t) \/ Replace(t) \/ Upload(t) \/ UploadThrows(t) \/ Uploaded(t)
  \/ EndUploads(t) \/ RemoveRemote(t) \/ Finish(t)

Resolution(n) ==
  \/ KeepLocalDelete(n) \/ KeepLocalUpload(n) \/ KeepLocalDone(n)
  \/ FetchRemote(n) \/ AdoptRemote(n)
  \/ KeepBothUpload(n) \/ KeepBothDone(n) \/ ResolveFails(n)

World(n) ==
  \/ \E c \in Content : UserWrite(n, c) \/ DevicePut(n, c)
  \/ UserRemove(n) \/ DeviceDrop(n)
  \/ KeepLocal(n) \/ KeepRemote(n) \/ KeepBoth(n) \/ KeepBothRefused(n)

Next ==
  \/ \E t \in Trigger : Reconcile(t) \/ RunFails(t)
  \/ \E n \in Name : Resolution(n) \/ World(n)
  \/ Restart

Spec == Init /\ [][Next]_vars

\* The poll loop keeps calling reconcile() and calls are answered.
FairSpec ==
  /\ Spec
  /\ \A t \in Trigger : WF_vars(Reconcile(t))
  /\ \A n \in Name : WF_vars(Resolution(n))

-----------------------------------------------------------------------------
(* Properties *)

Run == [pc: {"idle", "list", "diff", "reply", "act", "fetched", "uploads", "replace", "upload",
             "uploaded", "removals"},
        scan: Manifest, unreadable: SUBSET Name, remote: [Name -> Nat],
        changed: SUBSET [name: Name, version: Nat, action: {"download", "conflict"}],
        deleted: SUBSET Name, newVersion: Nat, conflicted: SUBSET Name,
        downloaded: SUBSET Name, left: SUBSET Name, name: Name, id: Nat]

Resolve == [pc: {"idle", "localDelete", "localUpload", "localDone", "fetch", "fetched",
                 "copyUpload", "copyDone", "copyFetch", "copyFetched"},
            id: Nat, created: Nat]

TypeOK ==
  /\ disk \in Manifest
  /\ ServerTypeOK
  /\ cursor \in Nat /\ entries \in [Name -> Entry]
  /\ conflicts \in [Name -> Nat]
  /\ saved \in [cursor: Nat, entries: [Name -> Entry]]
  /\ isSyncing \in BOOLEAN
  /\ run \in [Trigger -> Run] /\ resolve \in [Name -> Resolve]
  /\ touched \subseteq Name /\ stuck \subseteq Name /\ beside \subseteq Name
  /\ obeyed \subseteq Name /\ pending \subseteq Name /\ moves \in Nat

\* Names a run finishes with in a step of its removal pass.
Handled(t) == IF run[t].pc = "removals" THEN run[t].left \ run'[t].left ELSE {}

\* The removal pass deletes a file on the server only if the user removed or
\* changed it in the folder since it was last synced: not one a download, an
\* upload of another run or an unreadable folder entry made look removed.
\* Excepted are names a resolution worked on while a run was under way, until a
\* run syncs them again: a run may delete a file one recorded after its scan.
\* (A conflict copy KeepBoth makes or takes back counts as the user's own, who
\* pressed the button.)
RemovalsAreTheUsers ==
  [][rows' # rows => \A t \in Trigger : Handled(t) \subseteq touched \cup beside]_vars

\* A file the client has no record of is uploaded only if the user put it into
\* the folder: not one that another device deleted, nor one that a run which did
\* not get to save its entries had downloaded.  Excepted are names a resolution
\* worked on while a run was under way, until a run syncs them again, and files
\* that could not be removed for another device's deletion: the client forgets
\* them and uploads them again.
NothingResurrected ==
  [][\A t \in Trigger :
       run[t].pc = "upload" /\ run'[t].pc = "uploaded" /\ ~Known(run[t].name)
         => run[t].name \in touched \cup stuck \cup beside]_vars

\* From when a conflict is shown until the user settles it or quits the app, no
\* run uploads, replaces or deletes the file on the server.
ConflictsWait ==
  [][rows' # rows => \A t \in Trigger :
       /\ run[t].pc \in {"replace", "upload"} /\ run'[t] # run[t] => run[t].name \notin pending
       /\ Handled(t) \cap pending = {}]_vars

\* Names under which a row of that name counts as synced, in memory or in what
\* is saved, whose deletion the cursor there has passed.
Ghosts ==
  {n \in Name : \E g \in gone : g.name = n /\
     \/ g.version <= cursor /\ entries[n].id = g.id
     \/ g.version <= saved.cursor /\ saved.entries[n].id = g.id}

\* No run makes the client take a deleted row for a synced file once the cursor
\* has passed its deletion, whichever step it ends at: what a run records is
\* newer than the deletions it obeyed.  Not covered are rows the server renamed,
\* which the client records under another name, and entries that a resolution
\* wrote, for it may have fetched its row before a run passed the deletion.
NoGhostEntries == [][(\E t \in Trigger : run'[t] # run[t]) => Ghosts' \subseteq Ghosts]_vars

\* A sync overwrites or removes a local file only if its content has reached
\* the server: both sides' work is never silently lost.
UnsyncedWorkKept ==
  [][(\E t \in Trigger : run'[t] # run[t]) =>
       \A n \in Name : disk'[n] # disk[n] /\ disk[n] # NoFile => Stored(disk[n])]_vars

\* The cursor moves past a remote file the client lacked, and had seen in the
\* listing, only when the run has downloaded it.  (One uploaded between the
\* listing and the diff is passed over.)
DownloadsNotSkipped ==
  [][\A t \in Trigger : run[t].pc = "act" /\ run'[t].pc = "uploads" =>
       \A r \in rows :
         /\ r.version \in (cursor + 1)..cursor'
         /\ run[t].remote[r.name] = r.version
         /\ run[t].scan[r.name] = NoFile
         => r.name \in run[t].downloaded]_vars

\* Once nobody changes anything any more, folder and server become equal, except
\* under names in conflict, which wait for the user, and names whose file the
\* client removed from the folder for a deletion older than the server's file of
\* that name, as it does after every edit of its own.
Synced ==
  \A n \in Name \ (obeyed \cup pending) :
    IF Live(rows, n) THEN disk[n] = RowOf(IdOf(rows, n)).content ELSE disk[n] = NoFile

=============================================================================
