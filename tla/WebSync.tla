------------------------------- MODULE WebSync -------------------------------
(***************************************************************************)
(* Folder sync of the web client: one run of reconcile() per click on      *)
(* "Sync now", conflicts resolved from the same dialog, and the folder     *)
(* chosen anew at any time.                                                *)
(*                                                                         *)
(* Every handler works on the React state its closure captured when it was *)
(* clicked and writes it back when it is done.  A step is what happens     *)
(* from one await to the next; the user, another device and a reload of    *)
(* the page come between any two.                                          *)
(***************************************************************************)
EXTENDS SyncServer

CONSTANTS
  Folder,    \* folders the user can choose
  NoFolder,  \* none chosen yet
  CopyName,  \* for each name people use, the name of its conflict copy
  Slot,      \* bound: resolutions under way at a time
  Moves,     \* of {"create", "edit", "remove", "put", "drop", "choose", "resolve",
             \*     "unreadable", "stuck", "netFail", "reload"}
  MaxMoves   \* bound: steps of the user, the other device and the faults

ASSUME WebSyncAssumption ==
  /\ NoFolder \notin Folder
  /\ DOMAIN CopyName \subseteq Name
  /\ \A n \in DOMAIN CopyName : CopyName[n] \in Name \ {n}
  /\ MaxMoves \in Nat

VARIABLES
  disk,       \* the folders
  handle,     \* React: directoryHandle
  state,      \* React: syncState, the cursor and the entries
  conflicts,  \* React: the remote id by name, 0 for no conflict
  saved,      \* IndexedDB: directoryHandle and syncState
  run,        \* the run under way; isSyncing while there is one
  resolve,    \* the resolutions under way
  choose,     \* the folder being chosen
  \* For the properties, the first three for each folder:
  touched,    \* names the user changed since they were last synced
  stray,      \* names of files the page left there without a record, not synced since:
              \* it could not remove them, or a resolution wrote them
  crossed,    \* names whose records may be wrong since it was chosen: a resolution
              \* worked on one during a run, or an older or another folder's state
              \* was written back
  moves       \* steps counted against MaxMoves

memory == <<handle, state, conflicts>>
jobs == <<run, resolve, choose>>
marks == <<touched, stray, crossed>>
watch == <<marks, moves>>

vars == <<disk, rows, gone, clock, handle, state, conflicts, saved, run, resolve,
          choose, touched, stray, crossed, moves>>

NoEntry == [id |-> 0, content |-> NoFile]

Entry == [id: Nat, content: Content] \cup {NoEntry}

emptySyncState == [cursor |-> 0, entries |-> [n \in Name |-> NoEntry]]

NoConflict == [n \in Name |-> 0]

NoManifest == [n \in Name |-> NoFile]

PlainName == DOMAIN CopyName

NoRun ==
  [pc |-> "idle", folder |-> NoFolder, state |-> emptySyncState, conflicts |-> NoConflict,
   scan |-> NoManifest, unreadable |-> {}, remote |-> [n \in Name |-> 0], changed |-> {},
   deleted |-> {}, newVersion |-> 0, downloaded |-> {}, left |-> {},
   name |-> CHOOSE n \in Name : TRUE]

NoResolve == [pc |-> "idle", name |-> CHOOSE n \in Name : TRUE, folder |-> NoFolder,
              id |-> 0, created |-> 0, content |-> NoFile, state |-> emptySyncState]

NoChoice == [pc |-> "idle", folder |-> NoFolder, same |-> FALSE]

Init ==
  /\ disk = [f \in Folder |-> NoManifest]
  /\ ServerInit
  /\ handle = NoFolder /\ state = emptySyncState /\ conflicts = NoConflict
  /\ saved = [handle |-> NoFolder, state |-> emptySyncState]
  /\ run = NoRun /\ resolve = [k \in Slot |-> NoResolve] /\ choose = NoChoice
  /\ touched = [f \in Folder |-> {}] /\ stray = [f \in Folder |-> {}]
  /\ crossed = [f \in Folder |-> {}] /\ moves = 0

Move(kind) == kind \in Moves /\ moves < MaxMoves /\ moves' = moves + 1

isSyncing == run.pc # "idle"

Resolving == \E k \in Slot : resolve[k].pc # "idle"

\* The names the resolution r works on.
WorkedOn(r) ==
  {m \in Name : r.pc # "idle" /\ m = r.name}
    \cup {m \in Name : r.pc \in {"copyUpload", "copyFetch", "copyAdopted"}
                      /\ r.name \in PlainName /\ m = CopyName[r.name]}

InResolution(f) == UNION {WorkedOn(resolve[k]) : k \in {j \in Slot : resolve[j].folder = f}}

\* The folder f and the server agree on the name n.
SyncedNow(f, n) ==
  /\ touched' = [touched EXCEPT ![f] = @ \ {n}]
  /\ stray' = [stray EXCEPT ![f] = @ \ {n}]

\* What is recorded of the names N in the folder f may be wrong from now on.
Cross(f, N) == crossed' = [g \in Folder |-> IF g = f THEN crossed[f] \cup N ELSE crossed[g]]

\* try { await api.deleteFile(id) } catch {}: goes on whether or not it arrived.
TryDelete(id) ==
  \/ ServerDelete(id) /\ UNCHANGED moves
  \/ Move("netFail") /\ UNCHANGED server

-----------------------------------------------------------------------------
(* Choosing the folder *)

\* The picker returned and the handle is saved; the state saved with the old
\* handle is still there.
Choose(f) ==
  /\ choose.pc = "idle"
  /\ IF saved.handle = NoFolder THEN UNCHANGED moves ELSE Move("choose")
  /\ choose' = [pc |-> "saved", folder |-> f, same |-> saved.handle = f]
  /\ saved' = [saved EXCEPT !.handle = f]
  /\ UNCHANGED <<disk, server, memory, run, resolve, marks>>

\* Mutant of Chosen: the state is kept whatever folder was chosen.
ChosenKeeping ==
  /\ choose.pc = "saved"
  /\ handle' = choose.folder /\ state' = saved.state /\ conflicts' = NoConflict
  /\ choose' = NoChoice
  /\ UNCHANGED <<disk, server, saved, run, resolve, watch>>

\* What is under way goes on with the folder and the state it captured.
Chosen ==
  /\ choose.pc = "saved"
  /\ saved' = IF choose.same THEN saved ELSE [saved EXCEPT !.state = emptySyncState]
  /\ handle' = choose.folder /\ state' = saved'.state /\ conflicts' = NoConflict
  /\ choose' = NoChoice
  /\ crossed' = IF choose.same \/ isSyncing \/ Resolving THEN crossed
                 ELSE [crossed EXCEPT ![choose.folder] = {}]
  /\ UNCHANGED <<disk, server, run, resolve, touched, stray, moves>>

\* The page reads back what was saved; conflicts are not.  A folder that was being
\* chosen may be saved already, and its state not.
Reload ==
  /\ Move("reload")
  /\ handle' = saved.handle
  /\ state' = IF saved.handle = NoFolder THEN emptySyncState ELSE saved.state
  /\ conflicts' = NoConflict
  /\ run' = NoRun /\ resolve' = [k \in Slot |-> NoResolve] /\ choose' = NoChoice
  /\ Cross(saved.handle, IF choose.pc = "saved" /\ ~choose.same THEN Name ELSE {})
  /\ UNCHANGED <<disk, server, saved, touched, stray>>

-----------------------------------------------------------------------------
(* reconcile(): up to the diff *)

\* FolderScanner.scan: the folder without the files it could not read.
scan(f, U) == [n \in Name |-> IF n \in U THEN NoFile ELSE disk[f][n]]

\* A click without permission for the folder only asks for another click.
syncNow ==
  /\ handle # NoFolder /\ ~isSyncing
  /\ \E U \in SUBSET {n \in Name : disk[handle][n] # NoFile} :
       /\ IF U = {} THEN UNCHANGED moves ELSE Move("unreadable")
       /\ run' = [NoRun EXCEPT !.pc = "list", !.folder = handle, !.state = state,
                    !.conflicts = conflicts, !.unreadable = U, !.scan = scan(handle, U)]
  /\ Cross(handle, InResolution(handle))
  /\ UNCHANGED <<disk, server, memory, saved, resolve, choose, touched, stray>>

\* What only the run itself sees.
Step(r) ==
  /\ run' = r
  /\ UNCHANGED <<disk, server, memory, saved, resolve, choose, watch>>

List ==
  /\ run.pc = "list"
  /\ Step([run EXCEPT !.pc = "diff", !.remote = [n \in Name |-> IdOf(rows, n)]])

Diff ==
  /\ run.pc = "diff"
  /\ LET since == run.state.cursor IN
     Step([run EXCEPT !.pc = "act",
             !.changed = ChangeActions(rows, since, run.scan),
             !.deleted = DeleteActions(gone, since),
             !.left = DeleteActions(gone, since),
             !.newVersion = NewVersion(rows, gone, since)])

-----------------------------------------------------------------------------
(* reconcile(): the server's actions, in the order of their versions *)

entries == run.state.entries

Known(n) == entries[n] # NoEntry

NextAction == CHOOSE a \in run.changed : \A b \in run.changed : a.version <= b.version

Acting(kind) == run.pc = "act" /\ run.changed # {} /\ NextAction.action = kind

Done == [run EXCEPT !.changed = @ \ {NextAction}]

\* The row to fetch comes from the listing, not from the action.
Download ==
  LET n == NextAction.name
      id == run.remote[n]
  IN
  /\ Acting("download") /\ Exists(id)
  /\ disk' = [disk EXCEPT ![run.folder][n] = RowOf(id).content]
  /\ SyncedNow(run.folder, n)
  /\ run' = [run EXCEPT !.pc = "written"]
  /\ UNCHANGED <<server, memory, saved, resolve, choose, crossed, moves>>

\* Reads the file back to record it: what is there by now counts as synced.
Downloaded ==
  LET n == NextAction.name
      found == disk[run.folder][n]
  IN
  /\ run.pc = "written" /\ found # NoFile
  /\ Step([Done EXCEPT !.pc = "act", !.downloaded = @ \cup {n},
             !.state.entries[n] = [id |-> run.remote[n], content |-> found]])

\* A file the listing did not have, for a download or for a conflict that is
\* not of a known file either.
PassOver ==
  /\ Acting("download") \/ (Acting("conflict") /\ ~Known(NextAction.name))
  /\ run.remote[NextAction.name] = 0
  /\ Step(Done)

RecordConflict ==
  LET n == NextAction.name
      id == IF run.remote[n] # 0 THEN run.remote[n] ELSE entries[n].id
  IN
  /\ Acting("conflict") /\ id # 0
  /\ Step([Done EXCEPT !.conflicts[n] = id])

\* Mutant of Forget: the entry stays.
Keep(n) == run.state

Forget(n) == [run.state EXCEPT !.entries[n] = NoEntry]

\* Deletions come after the changes.  A file that cannot be removed stays and
\* is forgotten all the same: from then on it counts as one the user put there.
RemoveLocal ==
  /\ run.pc = "act" /\ run.changed = {}
  /\ \E n \in run.left :
       /\ \/ /\ disk' = [disk EXCEPT ![run.folder][n] = NoFile]
             /\ SyncedNow(run.folder, n)
             /\ UNCHANGED moves
          \/ /\ disk[run.folder][n] # NoFile /\ Move("stuck")
             /\ stray' = [stray EXCEPT ![run.folder] = @ \cup {n}]
             /\ UNCHANGED <<disk, touched>>
       /\ run' = [run EXCEPT !.left = @ \ {n}, !.state = Forget(n)]
  /\ UNCHANGED <<server, memory, saved, resolve, choose, crossed>>

-----------------------------------------------------------------------------
(* reconcile(): local changes *)

\* Mutant of Conflicted: only conflicts this run has found.
FoundNow == {n \in Name : run.conflicts[n] # 0 /\ conflicts[n] = 0}

Conflicted == {n \in Name : run.conflicts[n] # 0}

EndActions ==
  /\ run.pc = "act" /\ run.changed = {} /\ run.left = {}
  /\ Step([run EXCEPT !.pc = "uploads",
             !.left = {n \in Name : run.scan[n] # NoFile} \ (Conflicted \cup run.deleted)])

Edited(n) == Known(n) /\ entries[n].content # run.scan[n]

\* Mutant of New: the listing is not consulted.
Unrecorded(n) == ~Known(n)

New(n) == ~Known(n) /\ run.remote[n] = 0

UploadNext ==
  /\ run.pc = "uploads"
  /\ \E n \in run.left :
       /\ Edited(n) \/ New(n)
       /\ Step([run EXCEPT !.pc = IF Known(n) THEN "replace" ELSE "upload",
                  !.left = @ \ {n}, !.name = n])

Replace ==
  /\ run.pc = "replace"
  /\ TryDelete(entries[run.name].id)
  /\ run' = [run EXCEPT !.pc = "upload"]
  /\ UNCHANGED <<disk, memory, saved, resolve, choose, marks>>

\* Sends the file as it is now; what the scan saw is recorded.
Upload ==
  LET n == run.name
      found == disk[run.folder][n]
  IN
  /\ run.pc = "upload" /\ found # NoFile
  /\ ServerCreate(n, found)
  /\ IF found = run.scan[n] THEN SyncedNow(run.folder, n) ELSE UNCHANGED <<touched, stray>>
  /\ run' = [run EXCEPT !.pc = "uploads",
               !.state.entries[n] = [id |-> clock + 1, content |-> run.scan[n]]]
  /\ UNCHANGED <<disk, memory, saved, resolve, choose, crossed, moves>>

\* The server stored the file, and the answer was lost.
UploadUnanswered ==
  /\ run.pc = "upload" /\ disk[run.folder][run.name] # NoFile
  /\ Move("netFail")
  /\ ServerCreate(run.name, disk[run.folder][run.name])
  /\ run' = NoRun
  /\ UNCHANGED <<disk, memory, saved, resolve, choose, marks>>

RemovedLocally ==
  {n \in Name : Known(n) /\ run.scan[n] = NoFile}
    \ (run.unreadable \cup Conflicted \cup run.downloaded)

EndUploads ==
  /\ run.pc = "uploads"
  /\ \A n \in run.left : ~Edited(n) /\ ~New(n)
  /\ Step([run EXCEPT !.pc = "removals", !.left = RemovedLocally])

RemoveRemote ==
  /\ run.pc = "removals"
  /\ \E n \in run.left :
       /\ TryDelete(entries[n].id)
       /\ run' = [run EXCEPT !.left = @ \ {n}, !.state = Forget(n)]
  /\ UNCHANGED <<disk, memory, saved, resolve, choose, marks>>

\* Writes back what the run made of the state it captured, whatever became of
\* the page's state meanwhile.
Finish ==
  LET next == [cursor |-> run.newVersion, entries |-> entries] IN
  /\ run.pc = "removals" /\ run.left = {}
  /\ state' = next /\ conflicts' = run.conflicts
  /\ saved' = [saved EXCEPT !.state = next]
  /\ run' = NoRun
  /\ Cross(handle, IF handle = run.folder THEN {} ELSE Name)
  /\ UNCHANGED <<disk, server, handle, resolve, choose, touched, stray, moves>>

\* Nothing of the run is kept.  A file or row it needs is gone, or a call fails;
\* deletions are sent best-effort and do not end it.
RunThrows ==
  /\ \/ /\ \/ Acting("download") /\ run.remote[NextAction.name] # 0
                 /\ ~Exists(run.remote[NextAction.name])
           \/ run.pc = "written" /\ disk[run.folder][NextAction.name] = NoFile
           \/ run.pc = "upload" /\ disk[run.folder][run.name] = NoFile
        /\ UNCHANGED moves
     \/ /\ run.pc \in {"list", "diff", "written", "upload"} \/ Acting("download")
        /\ Move("netFail")
  /\ run' = NoRun
  /\ UNCHANGED <<disk, server, memory, saved, resolve, choose, marks>>

-----------------------------------------------------------------------------
(* Resolving a conflict *)

File(k) == disk[resolve[k].folder][resolve[k].name]

Copy(k) == disk[resolve[k].folder][CopyName[resolve[k].name]]

GoResolve(k, pc) == resolve' = [resolve EXCEPT ![k] = [@ EXCEPT !.pc = pc]]

EndResolve(k) == resolve' = [resolve EXCEPT ![k] = NoResolve]

\* A conflict's buttons are disabled while it is being resolved, until the dialog
\* is closed and opened again: the same conflict may be resolved twice at a time.
Click(k, n, pc, content) ==
  /\ conflicts[n] # 0 /\ handle # NoFolder /\ resolve[k].pc = "idle"
  /\ Move("resolve")
  /\ resolve' = [resolve EXCEPT ![k] =
       [pc |-> pc, name |-> n, folder |-> handle, id |-> conflicts[n], created |-> 0,
        content |-> content, state |-> state]]
  /\ Cross(handle, IF isSyncing /\ run.folder = handle THEN WorkedOn(resolve'[k]) ELSE {})
  /\ UNCHANGED <<server, memory, saved, run, choose>>

\* The names whose records the state captured at the click cannot replace: it is
\* another folder's, has other records of them, or has a cursor ahead of the page's.
Overtaken(k) ==
  LET captured == resolve[k].state IN
  IF handle # resolve[k].folder \/ captured.cursor > state.cursor THEN Name
  ELSE {m \in Name : captured.entries[m] # state.entries[m]}

\* The state captured at the click, with the new entries, becomes the page's.
Settle(k, new) ==
  LET next == [resolve[k].state EXCEPT
                 !.entries = [m \in Name |-> IF m \in DOMAIN new THEN new[m] ELSE @[m]]]
  IN
  /\ state' = next /\ saved' = [saved EXCEPT !.state = next]
  /\ Cross(handle, Overtaken(k))
  /\ GoResolve(k, "settled")

\* Once that is saved the conflict leaves the list as it is by then.
Dismiss(k) ==
  /\ resolve[k].pc = "settled"
  /\ conflicts' = [conflicts EXCEPT ![resolve[k].name] = 0]
  /\ EndResolve(k)
  /\ UNCHANGED <<disk, server, handle, state, saved, run, choose, watch>>

KeepLocal(k, n) ==
  /\ handle # NoFolder /\ disk[handle][n] # NoFile
  /\ Click(k, n, "localDelete", NoFile)
  /\ UNCHANGED <<disk, touched, stray>>

KeepLocalDelete(k) ==
  /\ resolve[k].pc = "localDelete"
  /\ TryDelete(resolve[k].id)
  /\ GoResolve(k, "localUpload")
  /\ UNCHANGED <<disk, memory, saved, run, choose, marks>>

KeepLocalUpload(k) ==
  LET r == resolve[k] IN
  /\ r.pc = "localUpload" /\ File(k) # NoFile
  /\ ServerCreate(r.name, File(k))
  /\ resolve' = [resolve EXCEPT ![k] =
       [@ EXCEPT !.pc = "localDone", !.created = clock + 1, !.content = File(k)]]
  /\ SyncedNow(r.folder, r.name)
  /\ UNCHANGED <<disk, memory, saved, run, choose, crossed, moves>>

\* A File can be read for as long as what it was taken from is unchanged.
KeepLocalDone(k) ==
  LET r == resolve[k] IN
  /\ r.pc = "localDone" /\ File(k) = r.content
  /\ Settle(k, [m \in {r.name} |-> [id |-> r.created, content |-> r.content]])
  /\ UNCHANGED <<disk, server, handle, conflicts, run, choose, touched, stray, moves>>

KeepRemote(k, n) ==
  /\ Click(k, n, "fetch", NoFile)
  /\ UNCHANGED <<disk, touched, stray>>

\* The first step of the end of KeepRemote and of KeepBoth.
AdoptRemote(k) ==
  LET r == resolve[k] IN
  /\ r.pc = "fetch" \/ (r.pc = "copyFetch" /\ Copy(k) = r.content)
  /\ Exists(r.id)
  /\ disk' = [disk EXCEPT ![r.folder][r.name] = RowOf(r.id).content]
  /\ touched' = [touched EXCEPT ![r.folder] = @ \ {r.name}]
  /\ stray' = [stray EXCEPT ![r.folder] = @ \cup {r.name}]
  /\ GoResolve(k, IF r.pc = "fetch" THEN "adopted" ELSE "copyAdopted")
  /\ UNCHANGED <<server, memory, saved, run, choose, crossed, moves>>

\* Records what is there by now.
Adopted(k) ==
  LET r == resolve[k]
      own == [id |-> r.id, content |-> File(k)]
      copy == [id |-> r.created, content |-> r.content]
  IN
  /\ r.pc \in {"adopted", "copyAdopted"} /\ File(k) # NoFile
  /\ Settle(k, IF r.pc = "adopted" THEN [m \in {r.name} |-> own]
               ELSE [m \in {r.name, CopyName[r.name]} |-> IF m = r.name THEN own ELSE copy])
  /\ stray' = [stray EXCEPT ![r.folder] = @ \ {r.name}]
  /\ UNCHANGED <<disk, server, handle, conflicts, run, choose, touched, moves>>

\* Copies the local file aside, over a copy of the same day; without a local
\* file the error path only removes that copy.
KeepBoth(k, n) ==
  LET here == disk[handle] IN
  /\ n \in PlainName /\ handle # NoFolder
  /\ disk' = [disk EXCEPT ![handle][CopyName[n]] = here[n]]
  /\ touched' = [touched EXCEPT ![handle] = @ \cup {CopyName[n]}]
  /\ IF here[n] # NoFile
     THEN Click(k, n, "copyUpload", here[n])
     ELSE /\ conflicts[n] # 0 /\ Move("resolve")
          /\ UNCHANGED <<server, memory, saved, run, choose, resolve, crossed>>
  /\ UNCHANGED stray

KeepBothUpload(k) ==
  LET r == resolve[k] IN
  /\ r.pc = "copyUpload" /\ Copy(k) = r.content
  /\ ServerCreate(CopyName[r.name], r.content)
  /\ resolve' = [resolve EXCEPT ![k] = [@ EXCEPT !.pc = "copyFetch", !.created = clock + 1]]
  /\ SyncedNow(r.folder, CopyName[r.name])
  /\ UNCHANGED <<disk, memory, saved, run, choose, crossed, moves>>

\* What a step of a resolution needs is gone or changed.
Lacks(k) ==
  LET r == resolve[k] IN
  \/ r.pc \in {"localUpload", "adopted", "copyAdopted"} /\ File(k) = NoFile
  \/ r.pc = "localDone" /\ File(k) # r.content
  \/ r.pc \in {"fetch", "copyFetch"} /\ ~Exists(r.id)
  \/ r.pc \in {"copyUpload", "copyFetch"} /\ Copy(k) # r.content

\* Or a call fails; KeepBoth takes its copy back.
ResolveFails(k) ==
  LET r == resolve[k] IN
  /\ \/ Lacks(k) /\ UNCHANGED moves
     \/ /\ r.pc \in {"localUpload", "localDone", "fetch", "copyUpload", "copyFetch"}
        /\ Move("netFail")
  /\ IF r.pc \in {"copyUpload", "copyFetch", "copyAdopted"}
     THEN /\ disk' = [disk EXCEPT ![r.folder][CopyName[r.name]] = NoFile]
          /\ touched' = [touched EXCEPT ![r.folder] = @ \cup {CopyName[r.name]}]
     ELSE UNCHANGED <<disk, touched>>
  /\ EndResolve(k)
  /\ UNCHANGED <<server, memory, saved, run, choose, stray, crossed>>

-----------------------------------------------------------------------------
(* The user and the other device *)

UserWrite(f, n, c) ==
  /\ disk[f][n] # c
  /\ IF disk[f][n] = NoFile THEN n \in PlainName /\ Move("create") ELSE Move("edit")
  /\ disk' = [disk EXCEPT ![f][n] = c]
  /\ touched' = [touched EXCEPT ![f] = @ \cup {n}]
  /\ UNCHANGED <<server, memory, saved, jobs, stray, crossed>>

UserRemove(f, n) ==
  /\ disk[f][n] # NoFile
  /\ Move("remove")
  /\ disk' = [disk EXCEPT ![f][n] = NoFile]
  /\ touched' = [touched EXCEPT ![f] = @ \cup {n}]
  /\ UNCHANGED <<server, memory, saved, jobs, stray, crossed>>

DevicePut(n, c) ==
  /\ n \in PlainName /\ ~Live(rows, n)
  /\ Move("put")
  /\ ServerCreate(n, c)
  /\ UNCHANGED <<disk, memory, saved, jobs, marks>>

DeviceDrop(n) ==
  /\ Live(rows, n)
  /\ Move("drop")
  /\ ServerDelete(IdOf(rows, n))
  /\ UNCHANGED <<disk, memory, saved, jobs, marks>>

-----------------------------------------------------------------------------

Reconcile ==
  \/ List \/ Diff \/ Download \/ Downloaded \/ PassOver \/ RecordConflict \/ RemoveLocal
  \/ EndActions \/ UploadNext \/ Replace \/ Upload \/ UploadUnanswered \/ EndUploads
  \/ RemoveRemote \/ Finish \/ RunThrows

Resolution(k) ==
  \/ KeepLocalDelete(k) \/ KeepLocalUpload(k) \/ KeepLocalDone(k)
  \/ AdoptRemote(k) \/ Adopted(k) \/ KeepBothUpload(k) \/ Dismiss(k) \/ ResolveFails(k)

Button(k, n) == KeepLocal(k, n) \/ KeepRemote(k, n) \/ KeepBoth(k, n)

\* The page's script is at rest: the run, if any, waits for a call or the disk.
Waiting ==
  \/ run.pc \in {"idle", "list", "diff", "written", "replace", "upload"}
  \/ Acting("download") /\ run.remote[NextAction.name] # 0
  \/ run.pc = "act" /\ run.changed = {} /\ run.left # {}
  \/ run.pc = "removals" /\ run.left # {}

World(n) ==
  \/ \E f \in Folder : UserRemove(f, n) \/ \E c \in Content : UserWrite(f, n, c)
  \/ \E c \in Content : DevicePut(n, c)
  \/ DeviceDrop(n)

Next ==
  \/ Reconcile
  \/ /\ Waiting
     /\ \/ syncNow
        \/ \E k \in Slot : Resolution(k) \/ \E n \in Name : Button(k, n)
        \/ \E f \in Folder : Choose(f)
        \/ Chosen
  \/ \E n \in Name : World(n)
  \/ Reload

Spec == Init /\ [][Next]_vars

-----------------------------------------------------------------------------
(* Properties *)

SyncState == [cursor: Nat, entries: [Name -> Entry]]

Run == [pc: {"idle", "list", "diff", "act", "written", "uploads", "replace", "upload",
             "removals"},
        folder: Folder \cup {NoFolder}, state: SyncState, conflicts: [Name -> Nat],
        scan: Manifest, unreadable: SUBSET Name, remote: [Name -> Nat],
        changed: SUBSET [name: Name, version: Nat, action: {"download", "conflict"}],
        deleted: SUBSET Name, newVersion: Nat, downloaded: SUBSET Name, left: SUBSET Name,
        name: Name]

Resolve == [pc: {"idle", "localDelete", "localUpload", "localDone", "fetch", "adopted",
                 "copyUpload", "copyFetch", "copyAdopted", "settled"},
            name: Name, folder: Folder \cup {NoFolder}, id: Nat, created: Nat,
            content: Content \cup {NoFile}, state: SyncState]

\* The dialog's, the store's and the handlers' state keep their shape.
TypeOK ==
  /\ disk \in [Folder -> Manifest] /\ ServerTypeOK
  /\ handle \in Folder \cup {NoFolder} /\ state \in SyncState
  /\ conflicts \in [Name -> Nat]
  /\ saved \in [handle: Folder \cup {NoFolder}, state: SyncState]
  /\ run \in Run /\ resolve \in [Slot -> Resolve]
  /\ choose \in [pc: {"idle", "saved"}, folder: Folder \cup {NoFolder}, same: BOOLEAN]
  /\ touched \in [Folder -> SUBSET Name] /\ stray \in [Folder -> SUBSET Name]
  /\ crossed \in [Folder -> SUBSET Name] /\ moves \in Nat

\* Names a run finishes with in a step of its removal pass.
Handled == IF run.pc = "removals" THEN run.left \ run'.left ELSE {}

\* The removal pass deletes a file on the server only if the user removed or
\* changed it in the folder of the run since it was last synced there: not one a
\* download, an upload or an unreadable file made look removed, nor, between
\* runs, a resolution.  Excepted are crossed names, whose records the page itself
\* may have lost or confused: names a resolution worked on while a run was under
\* way, or wrote other records of back than the page had by then; and all names
\* of a folder when a resolution put its cursor forward, when a run or a resolution
\* of another folder ended in it, or when the page was reloaded before the state
\* of a newly chosen folder was saved.  (A conflict
\* copy KeepBoth makes or takes back counts as the user's own, who pressed the
\* button.)
RemovalsAreTheUsers ==
  [][rows' # rows => \A n \in Handled : n \in touched[run.folder] \cup crossed[run.folder]]_vars

\* A file the run has no entry for is uploaded only if the user put it into the
\* folder: not one another device deleted, nor one that a run which threw had
\* downloaded or uploaded.  Excepted are crossed names, as above, and stray files:
\* one that could not be removed for another device's deletion is forgotten and
\* uploaded again, and so is one KeepRemote wrote and, for a reload, never
\* recorded.  (Conflict copies are left out: a run that begins while one is being
\* uploaded may send it a second time.)
NothingResurrected ==
  [][run.pc = "upload" /\ rows' # rows /\ run' # run
         /\ ~Known(run.name) /\ run.name \in PlainName
       => run.name \in touched[run.folder] \cup stray[run.folder] \cup crossed[run.folder]]_vars

\* As long as the page shows a conflict no run uploads, replaces or deletes the
\* file on the server, also one that began before the conflict was shown.
ConflictsWait ==
  [][rows' # rows /\ run' # run =>
       /\ run.pc \in {"replace", "upload"} => conflicts[run.name] = 0
       /\ \A n \in Handled : conflicts[n] = 0]_vars

\* A cursor never comes with an entry, under its own name, for a row whose
\* deletion it has passed, in memory or in the store, whichever handler wrote its
\* captured state last.  (Not covered are rows the server renamed, which the
\* client records under the name it asked for.)
NoGhosts(s) == \A g \in gone : g.version <= s.cursor => s.entries[g.name].id # g.id

NoGhostEntries == NoGhosts(state) /\ NoGhosts(saved.state)
=============================================================================
