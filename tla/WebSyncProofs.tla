---------------------------- MODULE WebSyncProofs ----------------------------
(* Folder sync of the web client, for any folders, names, contents and moves. *)
EXTENDS WebSync, SyncServerProofs

Action == [name: Name, version: Nat, action: {"download", "conflict"}]

Stage == {"idle", "list", "diff", "act", "written", "uploads", "replace", "upload", "removals"}

\* A run that is doing the server's actions, and one that has the report.
InActions == run.pc \in {"act", "written"}

Acted == {"act", "written", "uploads", "replace", "upload", "removals"}

\* What a run still has to upload was found by the scan and is neither deleted
\* nor in conflict; what it still has to remove was not found.
ToSend == {n \in Name : run.scan[n] # NoFile} \ (Conflicted \cup run.deleted)

Missing ==
  {n \in Name : run.scan[n] = NoFile} \ (run.unreadable \cup Conflicted \cup run.downloaded)

Sending == {"replace", "upload"}

PlanInv ==
  /\ run.pc # "idle" => run.folder \in Folder
  /\ run.pc = "written" => run.changed # {}
  /\ run.pc \in {"uploads"} \cup Sending => run.left \subseteq ToSend
  /\ run.pc \in Sending => run.name \in ToSend
  /\ run.pc = "removals" => run.left \subseteq Missing

\* What a resolution sends or has sent is a file's content, and only people's
\* own names get conflict copies.
Copying == {"copyUpload", "copyFetch", "copyAdopted"}

ResolveInv ==
  \A k \in Slot :
    /\ resolve[k].pc # "idle" => resolve[k].folder \in Folder
    /\ resolve[k].pc \in {"localDone"} \cup Copying => resolve[k].content # NoFile
    /\ resolve[k].pc \in Copying => resolve[k].name \in PlainName

\* No cursor, current, saved or captured, is ahead of the server.
CursorInv ==
  /\ state.cursor <= clock /\ saved.state.cursor <= clock
  /\ run.state.cursor <= clock /\ run.newVersion <= clock
  /\ run.pc \in Acted => run.state.cursor <= run.newVersion
  /\ \A k \in Slot : resolve[k].state.cursor <= clock

Basics == TypeOK /\ PlanInv /\ ResolveInv /\ ServerInv /\ CursorInv

-----------------------------------------------------------------------------
(* Shapes *)

LEMMA Shapes ==
  /\ NoManifest \in Manifest /\ NoConflict \in [Name -> Nat] /\ NoEntry \in Entry
  /\ emptySyncState \in SyncState /\ emptySyncState.cursor = 0
  /\ \A n \in Name : emptySyncState.entries[n] = NoEntry
  /\ NoRun \in Run /\ NoResolve \in Resolve
  /\ \A e \in Entry : e # NoEntry => e.content \in Content
  /\ \A id, c : c # NoFile => [id |-> id, content |-> c] # NoEntry
<1>1. NoManifest \in Manifest /\ NoConflict \in [Name -> Nat] /\ NoEntry \in Entry
  BY DEF NoManifest, Manifest, NoConflict, NoEntry, Entry
<1>2. /\ emptySyncState \in SyncState /\ emptySyncState.cursor = 0
      /\ \A n \in Name : emptySyncState.entries[n] = NoEntry
  BY <1>1 DEF emptySyncState, SyncState
<1> DEFINE some == CHOOSE n \in Name : TRUE
<1>3. some \in Name
  BY SyncDiffAssumption
<1>4. NoRun =
        [pc |-> "idle", folder |-> NoFolder, state |-> emptySyncState,
         conflicts |-> NoConflict, scan |-> NoManifest, unreadable |-> {},
         remote |-> [n \in Name |-> 0], changed |-> {}, deleted |-> {}, newVersion |-> 0,
         downloaded |-> {}, left |-> {}, name |-> some]
  BY DEF NoRun
<1> HIDE DEF some
<1>5. NoRun \in Run
  BY <1>1, <1>2, <1>3, <1>4 DEF Run
<1>6. NoResolve \in Resolve
  <2>1. NoResolve = [pc |-> "idle", name |-> some, folder |-> NoFolder, id |-> 0,
                     created |-> 0, content |-> NoFile, state |-> emptySyncState]
    BY DEF NoResolve, some
  <2> QED
    BY <1>2, <1>3, <2>1 DEF Resolve
<1>7. \A e \in Entry : e # NoEntry => e.content \in Content
  BY DEF Entry
<1>8. ASSUME NEW id, NEW c, c # NoFile PROVE [id |-> id, content |-> c] # NoEntry
  <2>1. [id |-> id, content |-> c].content # NoEntry.content
    BY <1>8 DEF NoEntry
  <2> QED
    BY <2>1
<1> QED
  BY <1>1, <1>2, <1>5, <1>6, <1>7, <1>8

\* The next action of a report is one of its actions.
LEMMA NextOfReport ==
  ASSUME TypeOK, run.changed # {}
  PROVE  /\ NextAction \in run.changed /\ NextAction \in Action
         /\ NextAction.name \in Name /\ run.changed \ {NextAction} \in SUBSET Action
<1>1. run.changed \in SUBSET Action
  BY DEF TypeOK, Run, Action
<1>2. NextAction \in run.changed
  BY <1>1, FirstAction DEF NextAction, Action
<1> QED
  BY <1>1, <1>2 DEF Action

-----------------------------------------------------------------------------
(* What each step of a run leaves in its record *)

\* A step of a run that has its report.
Becomes(pc, new, conflicted, changed, downloaded, left, name) ==
  /\ run' \in Run
  /\ run'.pc = pc /\ run'.state.cursor = run.state.cursor /\ run'.state.entries = new
  /\ run'.conflicts = conflicted /\ run'.changed = changed /\ run'.downloaded = downloaded
  /\ run'.left = left /\ run'.name = name
  /\ run'.folder = run.folder /\ run'.scan = run.scan /\ run'.unreadable = run.unreadable
  /\ run'.remote = run.remote /\ run'.deleted = run.deleted
  /\ run'.newVersion = run.newVersion

\* A step before that.
Prepares(pc) ==
  /\ run' \in Run /\ run'.pc = pc
  /\ run'.folder = run.folder /\ run'.scan = run.scan /\ run'.unreadable = run.unreadable
  /\ run'.state = run.state /\ run'.conflicts = run.conflicts
  /\ run'.downloaded = run.downloaded

LEMMA BeginFields ==
  ASSUME TypeOK, ServerInv, CursorInv
  PROVE  /\ syncNow =>
              /\ run' \in Run /\ run'.pc = "list" /\ run'.folder = handle /\ handle \in Folder
              /\ run'.state = state /\ run'.conflicts = conflicts
              /\ run'.scan = scan(handle, run'.unreadable) /\ run'.changed = {}
              /\ run'.deleted = {} /\ run'.newVersion = 0 /\ run'.left = {}
              /\ run'.remote = [n \in Name |-> 0]
         /\ List => /\ Prepares("diff") /\ run'.remote = [n \in Name |-> IdOf(rows, n)]
                    /\ run'.changed = run.changed /\ run'.deleted = run.deleted
                    /\ run'.newVersion = run.newVersion
         /\ Diff => /\ Prepares("act") /\ run'.remote = run.remote
                    /\ run'.changed = ChangeActions(rows, run.state.cursor, run.scan)
                    /\ run'.deleted = DeleteActions(gone, run.state.cursor)
                    /\ run'.left = run'.deleted
                    /\ run'.newVersion = NewVersion(rows, gone, run.state.cursor)
<1>1. /\ run \in Run /\ run.pc \in Stage /\ run.scan \in Manifest /\ run.state.cursor \in Nat
      /\ run.state \in SyncState /\ state \in SyncState /\ conflicts \in [Name -> Nat]
      /\ disk \in [Folder -> Manifest] /\ handle \in Folder \cup {NoFolder}
      /\ ServerTypeOK /\ run.state.cursor <= clock
  BY DEF TypeOK, Run, SyncState, Stage, CursorInv
<1>2. ASSUME syncNow
      PROVE  /\ run' \in Run /\ run'.pc = "list" /\ run'.folder = handle /\ handle \in Folder
             /\ run'.state = state /\ run'.conflicts = conflicts
             /\ run'.scan = scan(handle, run'.unreadable) /\ run'.changed = {}
             /\ run'.deleted = {} /\ run'.newVersion = 0 /\ run'.left = {}
             /\ run'.remote = [n \in Name |-> 0]
  <2>1. PICK U \in SUBSET Name :
          run' = [NoRun EXCEPT !.pc = "list", !.folder = handle, !.state = state,
                    !.conflicts = conflicts, !.unreadable = U, !.scan = scan(handle, U)]
    BY <1>2 DEF syncNow
  <2>2. handle \in Folder
    BY <1>1, <1>2 DEF syncNow
  <2> DEFINE S == scan(handle, U)
  <2>3. S \in Manifest
    BY <1>1, <2>2 DEF scan, Manifest
  <2>4. /\ NoRun \in Run /\ NoRun.changed = {} /\ NoRun.deleted = {} /\ NoRun.newVersion = 0
        /\ NoRun.left = {} /\ NoRun.remote = [n \in Name |-> 0]
    BY Shapes DEF NoRun
  <2>5. run' = [NoRun EXCEPT !.pc = "list", !.folder = handle, !.state = state,
                    !.conflicts = conflicts, !.unreadable = U, !.scan = S]
    BY <2>1
  <2> HIDE DEF S
  <2>6. run'.unreadable = U /\ run'.scan = S
    BY <2>4, <2>5 DEF Run
  <2>7. run' \in Run
    BY <1>1, <2>2, <2>3, <2>4, <2>5 DEF Run
  <2>8. /\ run'.pc = "list" /\ run'.folder = handle
        /\ run'.state = state /\ run'.conflicts = conflicts
        /\ run'.changed = {} /\ run'.deleted = {} /\ run'.newVersion = 0 /\ run'.left = {}
        /\ run'.remote = [n \in Name |-> 0]
    BY <2>4, <2>5 DEF Run
  <2> QED
    BY <2>2, <2>6, <2>7, <2>8 DEF S
<1>3. ASSUME List
      PROVE  /\ Prepares("diff") /\ run'.remote = [n \in Name |-> IdOf(rows, n)]
             /\ run'.changed = run.changed /\ run'.deleted = run.deleted
             /\ run'.newVersion = run.newVersion
  <2> DEFINE R == [n \in Name |-> IdOf(rows, n)]
  <2>1. R \in [Name -> Nat]
    BY <1>1, Ids DEF ServerTypeOK
  <2>2. run' = [run EXCEPT !.pc = "diff", !.remote = R]
    BY <1>3 DEF List, Step
  <2> HIDE DEF R
  <2>3. run' \in Run
    BY <1>1, <2>1, <2>2 DEF Run
  <2>4. run'.remote = R /\ run'.changed = run.changed /\ run'.deleted = run.deleted
        /\ run'.newVersion = run.newVersion
    BY <1>1, <2>2 DEF Run
  <2>5. Prepares("diff")
    BY <1>1, <2>2, <2>3 DEF Run, Prepares
  <2> QED
    BY <2>4, <2>5 DEF R
<1>4. ASSUME Diff
      PROVE  /\ Prepares("act") /\ run'.remote = run.remote
             /\ run'.changed = ChangeActions(rows, run.state.cursor, run.scan)
             /\ run'.deleted = DeleteActions(gone, run.state.cursor)
             /\ run'.left = run'.deleted
             /\ run'.newVersion = NewVersion(rows, gone, run.state.cursor)
  <2> DEFINE C == ChangeActions(rows, run.state.cursor, run.scan)
             D == DeleteActions(gone, run.state.cursor)
             V == NewVersion(rows, gone, run.state.cursor)
  <2>1. C \in SUBSET Action /\ D \in SUBSET Name /\ V \in Nat
    BY <1>1, Report DEF Action
  <2>2. run' = [run EXCEPT !.pc = "act", !.changed = C, !.deleted = D, !.left = D,
                           !.newVersion = V]
    BY <1>4 DEF Diff, Step
  <2> HIDE DEF C, D, V
  <2>3. run' \in Run
    BY <1>1, <2>1, <2>2 DEF Run, Action
  <2>4. run'.remote = run.remote /\ run'.changed = C /\ run'.deleted = D /\ run'.left = D
        /\ run'.newVersion = V
    BY <1>1, <2>2 DEF Run
  <2>5. Prepares("act")
    BY <1>1, <2>2, <2>3 DEF Run, Prepares
  <2> QED
    BY <2>4, <2>5 DEF C, D, V
<1> QED
  BY <1>2, <1>3, <1>4

\* The run does the server's actions.
LEMMA ActionFields ==
  ASSUME TypeOK, PlanInv
  PROVE  /\ Download => /\ Becomes("written", entries, run.conflicts, run.changed,
                                   run.downloaded, run.left, run.name)
                        /\ NextAction \in run.changed /\ NextAction.name \in Name
         /\ Downloaded => /\ Becomes("act",
                               [entries EXCEPT ![NextAction.name] =
                                  [id |-> run.remote[NextAction.name],
                                   content |-> disk[run.folder][NextAction.name]]],
                               run.conflicts, run.changed \ {NextAction},
                               run.downloaded \cup {NextAction.name}, run.left, run.name)
                          /\ NextAction \in run.changed /\ NextAction.name \in Name
         /\ PassOver => Becomes("act", entries, run.conflicts, run.changed \ {NextAction},
                                run.downloaded, run.left, run.name)
         /\ RecordConflict =>
              /\ NextAction \in run.changed /\ NextAction.name \in Name
              /\ \E id \in Nat \ {0} :
                   Becomes("act", entries, [run.conflicts EXCEPT ![NextAction.name] = id],
                           run.changed \ {NextAction}, run.downloaded, run.left, run.name)
         /\ RemoveLocal =>
              \E n \in run.left :
                /\ \/ /\ disk' = [disk EXCEPT ![run.folder][n] = NoFile]
                      /\ SyncedNow(run.folder, n)
                      /\ UNCHANGED moves
                   \/ /\ disk[run.folder][n] # NoFile /\ Move("stuck")
                      /\ stray' = [stray EXCEPT ![run.folder] = @ \cup {n}]
                      /\ UNCHANGED <<disk, touched>>
                /\ Becomes("act", [entries EXCEPT ![n] = NoEntry], run.conflicts, run.changed,
                           run.downloaded, run.left \ {n}, run.name)
         /\ EndActions => Becomes("uploads", entries, run.conflicts, run.changed,
                                  run.downloaded, ToSend, run.name)
<1>1. /\ run \in Run /\ run.pc \in Stage /\ run.state \in SyncState
      /\ entries \in [Name -> Entry] /\ run.conflicts \in [Name -> Nat]
      /\ run.changed \in SUBSET Action /\ run.downloaded \in SUBSET Name
      /\ run.left \in SUBSET Name /\ run.remote \in [Name -> Nat]
      /\ disk \in [Folder -> Manifest]
  BY DEF TypeOK, Run, SyncState, Stage, Action, entries
<1>2. ASSUME Download
      PROVE  /\ Becomes("written", entries, run.conflicts, run.changed, run.downloaded,
                        run.left, run.name)
             /\ NextAction \in run.changed /\ NextAction.name \in Name
  <2>1. run' = [run EXCEPT !.pc = "written"] /\ run.changed # {}
    BY <1>2 DEF Download, Acting
  <2>2. Becomes("written", entries, run.conflicts, run.changed, run.downloaded, run.left,
                run.name)
    BY <1>1, <2>1 DEF Run, Becomes, entries
  <2> QED
    BY <2>1, <2>2, NextOfReport
<1>3. ASSUME Downloaded
      PROVE  /\ Becomes("act",
                  [entries EXCEPT ![NextAction.name] =
                     [id |-> run.remote[NextAction.name],
                      content |-> disk[run.folder][NextAction.name]]],
                  run.conflicts, run.changed \ {NextAction},
                  run.downloaded \cup {NextAction.name}, run.left, run.name)
             /\ NextAction \in run.changed /\ NextAction.name \in Name
  <2> DEFINE n == NextAction.name
             e == [id |-> run.remote[n], content |-> disk[run.folder][n]]
             C == run.changed \ {NextAction}
             d == run.downloaded \cup {n}
  <2>1. run' = [run EXCEPT !.changed = C, !.pc = "act", !.downloaded = d,
                           !.state.entries[n] = e]
    BY <1>1, <1>3 DEF Downloaded, Done, Step, Run
  <2>2. run.pc = "written" /\ run.changed # {} /\ run.folder \in Folder /\ disk[run.folder][n] # NoFile
    BY <1>3 DEF Downloaded, PlanInv
  <2>3. n \in Name /\ C \in SUBSET Action /\ d \in SUBSET Name /\ NextAction \in run.changed
    BY <1>1, <2>2, NextOfReport
  <2>4. e \in Entry
    BY <1>1, <2>2, <2>3 DEF Entry, Manifest
  <2> HIDE DEF e, C, d, n
  <2>5. Becomes("act", [entries EXCEPT ![n] = e], run.conflicts, C, d, run.left, run.name)
    BY <1>1, <2>1, <2>3, <2>4 DEF Run, Becomes, entries, SyncState, Action
  <2> QED
    BY <2>3, <2>5 DEF e, C, d, n
<1>4. ASSUME PassOver
      PROVE  Becomes("act", entries, run.conflicts, run.changed \ {NextAction}, run.downloaded,
                     run.left, run.name)
  <2> DEFINE C == run.changed \ {NextAction}
  <2>1. run' = [run EXCEPT !.changed = C] /\ run.pc = "act" /\ run.changed # {}
    BY <1>4 DEF PassOver, Acting, Step, Done
  <2>2. C \in SUBSET Action
    BY <1>1
  <2> HIDE DEF C
  <2>3. Becomes("act", entries, run.conflicts, C, run.downloaded, run.left, run.name)
    BY <1>1, <2>1, <2>2 DEF Run, Becomes, entries, Action
  <2> QED
    BY <2>3 DEF C
<1>5. ASSUME RecordConflict
      PROVE  /\ NextAction \in run.changed /\ NextAction.name \in Name
             /\ \E id \in Nat \ {0} :
                  Becomes("act", entries, [run.conflicts EXCEPT ![NextAction.name] = id],
                          run.changed \ {NextAction}, run.downloaded, run.left, run.name)
  <2> DEFINE n == NextAction.name
             id == IF run.remote[n] # 0 THEN run.remote[n] ELSE entries[n].id
             C == run.changed \ {NextAction}
  <2>1. /\ run' = [[run EXCEPT !.changed = C] EXCEPT !.conflicts[n] = id]
        /\ run.pc = "act" /\ run.changed # {} /\ id # 0
    BY <1>5 DEF RecordConflict, Acting, Step, Done
  <2>2. n \in Name /\ C \in SUBSET Action /\ NextAction \in run.changed
    BY <1>1, <2>1, NextOfReport
  <2>3. id \in Nat
    BY <1>1, <2>2 DEF Entry, NoEntry
  <2> HIDE DEF n, id, C
  <2>4. Becomes("act", entries, [run.conflicts EXCEPT ![n] = id], C, run.downloaded, run.left,
                run.name)
    BY <1>1, <2>1, <2>2, <2>3 DEF Run, Becomes, entries, Action
  <2> QED
    BY <2>1, <2>2, <2>3, <2>4 DEF n, C
<1>6. ASSUME RemoveLocal
      PROVE  \E n \in run.left :
                /\ \/ /\ disk' = [disk EXCEPT ![run.folder][n] = NoFile]
                      /\ SyncedNow(run.folder, n)
                      /\ UNCHANGED moves
                   \/ /\ disk[run.folder][n] # NoFile /\ Move("stuck")
                      /\ stray' = [stray EXCEPT ![run.folder] = @ \cup {n}]
                      /\ UNCHANGED <<disk, touched>>
                /\ Becomes("act", [entries EXCEPT ![n] = NoEntry], run.conflicts, run.changed,
                           run.downloaded, run.left \ {n}, run.name)
  <2>1. PICK n \in run.left :
          /\ \/ /\ disk' = [disk EXCEPT ![run.folder][n] = NoFile]
                /\ SyncedNow(run.folder, n)
                /\ UNCHANGED moves
             \/ /\ disk[run.folder][n] # NoFile /\ Move("stuck")
                /\ stray' = [stray EXCEPT ![run.folder] = @ \cup {n}]
                /\ UNCHANGED <<disk, touched>>
          /\ run' = [run EXCEPT !.left = run.left \ {n},
                                !.state = [run.state EXCEPT !.entries[n] = NoEntry]]
    BY <1>6 DEF RemoveLocal, Forget
  <2> DEFINE L == run.left \ {n}
  <2>2. run' = [run EXCEPT !.left = L, !.state = [run.state EXCEPT !.entries[n] = NoEntry]]
        /\ run.pc = "act" /\ n \in Name /\ L \in SUBSET Name
    BY <1>1, <1>6, <2>1 DEF RemoveLocal
  <2> HIDE DEF L
  <2>3. Becomes("act", [entries EXCEPT ![n] = NoEntry], run.conflicts, run.changed,
                run.downloaded, L, run.name)
    BY <1>1, <2>2, Shapes DEF Run, Becomes, entries, SyncState
  <2> QED
    BY <2>1, <2>3 DEF L
<1>7. ASSUME EndActions
      PROVE  Becomes("uploads", entries, run.conflicts, run.changed, run.downloaded, ToSend,
                     run.name)
  <2>1. run' = [run EXCEPT !.pc = "uploads", !.left = ToSend] /\ ToSend \in SUBSET Name
    BY <1>7 DEF EndActions, Step, ToSend
  <2> QED
    BY <1>1, <2>1 DEF Run, Becomes, entries
<1> QED
  BY <1>2, <1>3, <1>4, <1>5, <1>6, <1>7

\* The run sends and removes what the user changed.
LEMMA UploadFields ==
  ASSUME TypeOK, PlanInv
  PROVE  /\ UploadNext =>
              \E n \in run.left, pc \in Sending :
                /\ Edited(n) \/ New(n)
                /\ pc = "replace" <=> Known(n)
                /\ Becomes(pc, entries, run.conflicts, run.changed, run.downloaded,
                           run.left \ {n}, n)
         /\ Replace => Becomes("upload", entries, run.conflicts, run.changed, run.downloaded,
                               run.left, run.name)
         /\ Upload => /\ Becomes("uploads",
                           [entries EXCEPT ![run.name] =
                              [id |-> clock + 1, content |-> run.scan[run.name]]],
                           run.conflicts, run.changed, run.downloaded, run.left, run.name)
                      /\ run.scan[run.name] \in Content /\ run.scan[run.name] # NoFile
         /\ EndUploads => Becomes("removals", entries, run.conflicts, run.changed,
                                  run.downloaded, RemovedLocally, run.name)
         /\ RemoveRemote =>
              \E n \in run.left :
                /\ TryDelete(entries[n].id)
                /\ Becomes("removals", [entries EXCEPT ![n] = NoEntry], run.conflicts,
                           run.changed, run.downloaded, run.left \ {n}, run.name)
<1>1. /\ run \in Run /\ run.pc \in Stage /\ run.state \in SyncState
      /\ entries \in [Name -> Entry] /\ run.conflicts \in [Name -> Nat]
      /\ run.changed \in SUBSET Action /\ run.downloaded \in SUBSET Name
      /\ run.left \in SUBSET Name /\ run.scan \in Manifest /\ run.name \in Name
      /\ clock \in Nat
  BY DEF TypeOK, Run, SyncState, Stage, Action, entries, ServerTypeOK
<1>2. ASSUME UploadNext
      PROVE  \E n \in run.left, pc \in Sending :
                /\ Edited(n) \/ New(n)
                /\ pc = "replace" <=> Known(n)
                /\ Becomes(pc, entries, run.conflicts, run.changed, run.downloaded,
                           run.left \ {n}, n)
  <2>1. PICK n \in run.left :
          /\ Edited(n) \/ New(n)
          /\ run' = [run EXCEPT !.pc = IF Known(n) THEN "replace" ELSE "upload",
                                !.left = run.left \ {n}, !.name = n]
    BY <1>2 DEF UploadNext, Step
  <2> DEFINE pc == IF Known(n) THEN "replace" ELSE "upload"  L == run.left \ {n}
  <2>2. /\ run' = [run EXCEPT !.pc = pc, !.left = L, !.name = n]
        /\ n \in Name /\ L \in SUBSET Name /\ pc \in Sending /\ pc \in Stage
        /\ pc = "replace" <=> Known(n)
    BY <1>1, <2>1 DEF Sending, Stage
  <2> HIDE DEF pc, L
  <2>3. Becomes(pc, entries, run.conflicts, run.changed, run.downloaded, L, n)
    BY <1>1, <2>2 DEF Run, Becomes, entries, Stage
  <2> QED
    BY <2>1, <2>2, <2>3 DEF L
<1>3. ASSUME Replace
      PROVE  Becomes("upload", entries, run.conflicts, run.changed, run.downloaded, run.left,
                     run.name)
  <2>1. run' = [run EXCEPT !.pc = "upload"]
    BY <1>3 DEF Replace
  <2> QED
    BY <1>1, <2>1 DEF Run, Becomes, entries
<1>4. ASSUME Upload
      PROVE  /\ Becomes("uploads",
                  [entries EXCEPT ![run.name] =
                     [id |-> clock + 1, content |-> run.scan[run.name]]],
                  run.conflicts, run.changed, run.downloaded, run.left, run.name)
             /\ run.scan[run.name] \in Content /\ run.scan[run.name] # NoFile
  <2> DEFINE e == [id |-> clock + 1, content |-> run.scan[run.name]]
  <2>1. run.scan[run.name] # NoFile
    BY <1>4 DEF Upload, PlanInv, Sending, ToSend
  <2>2. run.scan[run.name] \in Content /\ clock + 1 \in Nat
    BY <1>1, <2>1 DEF Manifest
  <2>3. e \in Entry
    BY <2>2 DEF Entry
  <2>4. run' = [run EXCEPT !.pc = "uploads", !.state.entries[run.name] = e]
    BY <1>4 DEF Upload
  <2> HIDE DEF e
  <2>5. Becomes("uploads", [entries EXCEPT ![run.name] = e], run.conflicts, run.changed,
                run.downloaded, run.left, run.name)
    BY <1>1, <2>3, <2>4 DEF Run, Becomes, entries, SyncState
  <2> QED
    BY <2>1, <2>2, <2>5 DEF e
<1>5. ASSUME EndUploads
      PROVE  Becomes("removals", entries, run.conflicts, run.changed, run.downloaded,
                     RemovedLocally, run.name)
  <2>1. run' = [run EXCEPT !.pc = "removals", !.left = RemovedLocally]
        /\ RemovedLocally \in SUBSET Name
    BY <1>5 DEF EndUploads, Step, RemovedLocally
  <2> QED
    BY <1>1, <2>1 DEF Run, Becomes, entries
<1>6. ASSUME RemoveRemote
      PROVE  \E n \in run.left :
                /\ TryDelete(entries[n].id)
                /\ Becomes("removals", [entries EXCEPT ![n] = NoEntry], run.conflicts,
                           run.changed, run.downloaded, run.left \ {n}, run.name)
  <2>1. PICK n \in run.left :
          /\ TryDelete(entries[n].id)
          /\ run' = [run EXCEPT !.left = run.left \ {n},
                                !.state = [run.state EXCEPT !.entries[n] = NoEntry]]
    BY <1>6 DEF RemoveRemote, Forget
  <2> DEFINE L == run.left \ {n}
  <2>2. run' = [run EXCEPT !.left = L, !.state = [run.state EXCEPT !.entries[n] = NoEntry]]
        /\ run.pc = "removals" /\ n \in Name /\ L \in SUBSET Name
    BY <1>1, <1>6, <2>1 DEF RemoveRemote
  <2> HIDE DEF L
  <2>3. Becomes("removals", [entries EXCEPT ![n] = NoEntry], run.conflicts, run.changed,
                run.downloaded, L, run.name)
    BY <1>1, <2>2, Shapes DEF Run, Becomes, entries, SyncState
  <2> QED
    BY <2>1, <2>3 DEF L
<1> QED
  BY <1>2, <1>3, <1>4, <1>5, <1>6

-----------------------------------------------------------------------------
(* What each step of a resolution leaves *)

Others(k) == \A j \in Slot \ {k} : resolve'[j] = resolve[j]

\* One step on.
Advanced(k, pc, created, content) ==
  /\ resolve' \in [Slot -> Resolve] /\ Others(k)
  /\ resolve'[k].pc = pc /\ resolve'[k].created = created /\ resolve'[k].content = content
  /\ resolve'[k].name = resolve[k].name /\ resolve'[k].folder = resolve[k].folder
  /\ resolve'[k].id = resolve[k].id /\ resolve'[k].state = resolve[k].state

Ended(k) == resolve' \in [Slot -> Resolve] /\ Others(k) /\ resolve'[k] = NoResolve

\* The state captured at the click, with new entries, is the page's.
Settled(k, new) ==
  /\ Advanced(k, "settled", resolve[k].created, resolve[k].content)
  /\ state' \in SyncState /\ state'.cursor = resolve[k].state.cursor /\ state'.entries = new
  /\ saved' \in [handle: Folder \cup {NoFolder}, state: SyncState]
  /\ saved'.state = state' /\ saved'.handle = saved.handle
  /\ Cross(handle, Overtaken(k))

\* What the two ways of adopting a remote file record.
OwnEntry(k) == [id |-> resolve[k].id, content |-> File(k)]

CopyEntry(k) == [id |-> resolve[k].created, content |-> resolve[k].content]

\* The captured entries with those a resolution makes.
Alone(k, e) == [resolve[k].state.entries EXCEPT ![resolve[k].name] = e]

Both(k) == [resolve[k].state.entries EXCEPT ![resolve[k].name] = OwnEntry(k),
                                            ![CopyName[resolve[k].name]] = CopyEntry(k)]

LEMMA ResolutionFields ==
  ASSUME TypeOK, ResolveInv, NEW k \in Slot
  PROVE  /\ KeepLocalDelete(k) =>
              Advanced(k, "localUpload", resolve[k].created, resolve[k].content)
         /\ KeepLocalUpload(k) => Advanced(k, "localDone", clock + 1, File(k))
         /\ AdoptRemote(k) =>
              Advanced(k, IF resolve[k].pc = "fetch" THEN "adopted" ELSE "copyAdopted",
                       resolve[k].created, resolve[k].content)
         /\ KeepBothUpload(k) => Advanced(k, "copyFetch", clock + 1, resolve[k].content)
         /\ KeepLocalDone(k) => Settled(k, Alone(k, CopyEntry(k)))
         /\ Adopted(k) /\ resolve[k].pc = "adopted" => Settled(k, Alone(k, OwnEntry(k)))
         /\ Adopted(k) /\ resolve[k].pc = "copyAdopted" =>
              Settled(k, Both(k)) /\ CopyName[resolve[k].name] \in Name \ {resolve[k].name}
         /\ Dismiss(k) => Ended(k) /\ conflicts' \in [Name -> Nat]
         /\ ResolveFails(k) => Ended(k)
<1> DEFINE q == resolve[k]  n == q.name
<1>1. /\ resolve \in [Slot -> Resolve] /\ clock \in Nat /\ disk \in [Folder -> Manifest]
      /\ state \in SyncState /\ conflicts \in [Name -> Nat]
      /\ saved \in [handle: Folder \cup {NoFolder}, state: SyncState]
  BY DEF TypeOK, ServerTypeOK
<1>2. /\ q \in Resolve /\ q.created \in Nat /\ q.id \in Nat /\ n \in Name
      /\ q.content \in Content \cup {NoFile} /\ q.state \in SyncState
  BY <1>1 DEF Resolve
<1>3. q.pc # "idle" => File(k) \in Content \cup {NoFile}
  BY <1>1, <1>2 DEF ResolveInv, File, Manifest
<1>4. ASSUME NEW pc \in {"localUpload", "adopted", "copyAdopted", "settled"}, GoResolve(k, pc)
      PROVE  Advanced(k, pc, q.created, q.content)
  <2>1. resolve' = [resolve EXCEPT ![k] = [q EXCEPT !.pc = pc]]
    BY <1>4 DEF GoResolve
  <2>2. [q EXCEPT !.pc = pc] \in Resolve
    <3> HIDE DEF q
    <3> QED
      BY <1>2 DEF Resolve
  <2>3. resolve' \in [Slot -> Resolve] /\ resolve'[k] = [q EXCEPT !.pc = pc] /\ Others(k)
    BY <1>1, <2>1, <2>2 DEF Others
  <2> QED
    BY <1>2, <2>3 DEF Advanced, Resolve
<1>5. ASSUME KeepLocalUpload(k) PROVE Advanced(k, "localDone", clock + 1, File(k))
  <2> DEFINE c == File(k)  id == clock + 1
             r == [q EXCEPT !.pc = "localDone", !.created = id, !.content = c]
  <2>1. resolve' = [resolve EXCEPT ![k] = r] /\ c \in Content \cup {NoFile} /\ id \in Nat
    BY <1>1, <1>3, <1>5 DEF KeepLocalUpload
  <2> HIDE DEF c, id
  <2>2. r \in Resolve
    <3> HIDE DEF q
    <3> QED
      BY <1>1, <1>2, <2>1 DEF Resolve
  <2>3. resolve' \in [Slot -> Resolve] /\ resolve'[k] = r /\ Others(k)
    <3> HIDE DEF r
    <3> QED
      BY <1>1, <2>1, <2>2 DEF Others
  <2>4. Advanced(k, "localDone", id, c)
    BY <1>2, <2>3 DEF Advanced, Resolve
  <2> QED
    BY <2>4 DEF c, id
<1>6. ASSUME KeepBothUpload(k) PROVE Advanced(k, "copyFetch", clock + 1, q.content)
  <2> DEFINE id == clock + 1  r == [q EXCEPT !.pc = "copyFetch", !.created = id]
  <2>1. resolve' = [resolve EXCEPT ![k] = r] /\ id \in Nat
    BY <1>1, <1>6 DEF KeepBothUpload
  <2> HIDE DEF id
  <2>2. r \in Resolve
    <3> HIDE DEF q
    <3> QED
      BY <1>1, <1>2, <2>1 DEF Resolve
  <2>3. resolve' \in [Slot -> Resolve] /\ resolve'[k] = r /\ Others(k)
    <3> HIDE DEF r
    <3> QED
      BY <1>1, <2>1, <2>2 DEF Others
  <2>4. Advanced(k, "copyFetch", id, q.content)
    BY <1>2, <2>3 DEF Advanced, Resolve
  <2> QED
    BY <2>4 DEF id
<1>7. ASSUME EndResolve(k) PROVE Ended(k)
  BY <1>1, <1>7, Shapes DEF EndResolve, Ended, Others
<1>8. ASSUME NEW new, NEW E, Settle(k, new), E \in [Name -> Entry],
             \A m \in Name : E[m] = IF m \in DOMAIN new THEN new[m] ELSE q.state.entries[m]
      PROVE  Settled(k, E)
  <2> DEFINE N == [m \in Name |-> IF m \in DOMAIN new THEN new[m] ELSE q.state.entries[m]]
             next == [q.state EXCEPT !.entries = N]
  <2>1. /\ state' = next /\ saved' = [saved EXCEPT !.state = next]
        /\ Cross(handle, Overtaken(k))
    BY <1>8 DEF Settle
  <2>2. Advanced(k, "settled", q.created, q.content)
    BY <1>4, <1>8 DEF Settle
  <2>3. N = E
    BY <1>8
  <2> HIDE DEF N
  <2>4. next \in SyncState /\ next.cursor = q.state.cursor /\ next.entries = E
    <3> HIDE DEF q
    <3> QED
      BY <1>2, <1>8, <2>3 DEF SyncState
  <2> HIDE DEF next
  <2> QED
    BY <1>1, <2>1, <2>2, <2>4 DEF Settled
<1>own. ASSUME NEW e, e \in Entry, NEW new, Settle(k, new), new = [m \in {n} |-> e]
        PROVE  Settled(k, Alone(k, e))
  <2> DEFINE E == Alone(k, e)
  <2>1. q.state.entries \in [Name -> Entry]
    BY <1>2 DEF SyncState
  <2>2. E \in [Name -> Entry]
        /\ \A m \in Name : E[m] = IF m \in DOMAIN new THEN new[m] ELSE q.state.entries[m]
    BY <1>2, <1>own, <2>1 DEF Alone
  <2> HIDE DEF E
  <2>3. Settled(k, E)
    BY <1>8, <1>own, <2>2
  <2> QED
    BY <2>3 DEF E
<1>9. ASSUME KeepLocalDone(k) PROVE Settled(k, Alone(k, CopyEntry(k)))
  <2>1. Settle(k, [m \in {n} |-> CopyEntry(k)]) /\ q.pc = "localDone"
    BY <1>9 DEF KeepLocalDone, CopyEntry
  <2>2. q.content \in Content
    BY <1>2, <2>1 DEF ResolveInv
  <2>3. CopyEntry(k) \in Entry
    BY <1>2, <2>2 DEF CopyEntry, Entry
  <2> QED
    BY <1>own, <2>1, <2>3
<1>10. ASSUME Adopted(k), q.pc = "adopted" PROVE Settled(k, Alone(k, OwnEntry(k)))
  <2>1. Settle(k, [m \in {n} |-> OwnEntry(k)]) /\ File(k) # NoFile
    BY <1>10 DEF Adopted, OwnEntry
  <2>2. OwnEntry(k) \in Entry
    BY <1>2, <1>3, <1>10, <2>1 DEF OwnEntry, Entry
  <2> QED
    BY <1>own, <2>1, <2>2
<1>11. ASSUME Adopted(k), q.pc = "copyAdopted"
       PROVE  Settled(k, Both(k)) /\ CopyName[n] \in Name \ {n}
  <2> DEFINE new == [m \in {n, CopyName[n]} |-> IF m = n THEN OwnEntry(k) ELSE CopyEntry(k)]
             E == Both(k)
  <2>1. Settle(k, new) /\ File(k) # NoFile
    BY <1>11 DEF Adopted, OwnEntry, CopyEntry
  <2>2. File(k) \in Content /\ q.content \in Content /\ n \in PlainName
    BY <1>2, <1>3, <1>11, <2>1 DEF ResolveInv, Copying
  <2>3. CopyName[n] \in Name \ {n}
    BY <2>2, WebSyncAssumption DEF PlainName
  <2>4. /\ OwnEntry(k) \in Entry /\ CopyEntry(k) \in Entry
        /\ q.state.entries \in [Name -> Entry]
    BY <1>2, <2>2 DEF OwnEntry, CopyEntry, Entry, SyncState
  <2>5. /\ DOMAIN new = {n, CopyName[n]}
        /\ new[n] = OwnEntry(k) /\ new[CopyName[n]] = CopyEntry(k)
    BY <2>3
  <2>6. E \in [Name -> Entry]
        /\ \A m \in Name : E[m] = IF m \in DOMAIN new THEN new[m] ELSE q.state.entries[m]
    <3> HIDE DEF new
    <3> QED
      BY <1>2, <2>3, <2>4, <2>5 DEF Both
  <2> HIDE DEF new, E
  <2>7. Settled(k, E)
    BY <1>8, <2>1, <2>6
  <2> QED
    BY <2>3, <2>7 DEF E
<1>12. KeepLocalDelete(k) => Advanced(k, "localUpload", q.created, q.content)
  BY <1>4 DEF KeepLocalDelete
<1>13. AdoptRemote(k) =>
         Advanced(k, IF q.pc = "fetch" THEN "adopted" ELSE "copyAdopted", q.created, q.content)
  <2> SUFFICES ASSUME AdoptRemote(k)
               PROVE  Advanced(k, IF q.pc = "fetch" THEN "adopted" ELSE "copyAdopted",
                               q.created, q.content)
    OBVIOUS
  <2> DEFINE pc == IF q.pc = "fetch" THEN "adopted" ELSE "copyAdopted"
  <2>1. GoResolve(k, pc) /\ pc \in {"localUpload", "adopted", "copyAdopted", "settled"}
    BY DEF AdoptRemote
  <2> HIDE DEF pc
  <2>2. Advanced(k, pc, q.created, q.content)
    BY <1>4, <2>1
  <2> QED
    BY <2>2 DEF pc
<1>14. Dismiss(k) => Ended(k) /\ conflicts' \in [Name -> Nat]
  <2>1. Dismiss(k) => EndResolve(k) /\ conflicts' = [conflicts EXCEPT ![n] = 0]
    BY DEF Dismiss
  <2> HIDE DEF n
  <2>2. Dismiss(k) => conflicts' \in [Name -> Nat]
    BY <1>1, <2>1
  <2> QED
    BY <1>7, <2>1, <2>2
<1> QED
  BY <1>5, <1>6, <1>7, <1>9, <1>10, <1>11, <1>12, <1>13, <1>14 DEF ResolveFails

-----------------------------------------------------------------------------
(* Types *)

\* What an action may rely on.
LEMMA Typed ==
  ASSUME TypeOK
  PROVE  /\ clock \in Nat /\ disk \in [Folder -> Manifest]
         /\ \A f \in Folder, n \in Name : disk[f][n] # NoFile => disk[f][n] \in Content
         /\ \A n \in Name : IdOf(rows, n) \in Nat
         /\ \A n \in Name : entries[n] \in Entry /\ entries[n].id \in Nat
         /\ \A k \in Slot :
              /\ resolve[k] \in Resolve /\ resolve[k].id \in Nat /\ resolve[k].name \in Name
              /\ resolve[k].state \in SyncState
         /\ entries \in [Name -> Entry] /\ run.left \subseteq Name /\ run.name \in Name
         /\ run.state \in SyncState /\ state \in SyncState
         /\ conflicts \in [Name -> Nat] /\ run.conflicts \in [Name -> Nat]
         /\ run.newVersion \in Nat /\ run.remote \in [Name -> Nat]
         /\ run.deleted \subseteq Name
<1>1. /\ clock \in Nat /\ disk \in [Folder -> Manifest]
      /\ \A f \in Folder, n \in Name : disk[f][n] # NoFile => disk[f][n] \in Content
  BY DEF TypeOK, ServerTypeOK, Manifest
<1>2. \A n \in Name : IdOf(rows, n) \in Nat
  BY DEF TypeOK, ServerTypeOK, Row, IdOf, Live
<1>3. /\ run.state \in SyncState /\ run.left \subseteq Name /\ run.name \in Name
      /\ state \in SyncState /\ conflicts \in [Name -> Nat] /\ run.conflicts \in [Name -> Nat]
      /\ run.newVersion \in Nat /\ run.remote \in [Name -> Nat] /\ run.deleted \subseteq Name
  BY DEF TypeOK, Run
<1>4. entries \in [Name -> Entry]
  BY <1>3 DEF SyncState, entries
<1>5. \A n \in Name : entries[n] \in Entry /\ entries[n].id \in Nat
  BY <1>4 DEF Entry, NoEntry
<1>6. \A k \in Slot :
        /\ resolve[k] \in Resolve /\ resolve[k].id \in Nat /\ resolve[k].name \in Name
        /\ resolve[k].state \in SyncState
  BY DEF TypeOK, Resolve
<1> QED
  BY <1>1, <1>2, <1>3, <1>4, <1>5, <1>6

\* The steps there are.
LEMMA NextSteps ==
  ASSUME Next
  PROVE  \/ syncNow \/ Reconcile
         \/ \E k \in Slot : Resolution(k) \/ \E n \in Name : Button(k, n)
         \/ \E n \in Name : World(n)
         \/ (\E f \in Folder : Choose(f)) \/ Chosen \/ Reload
BY DEF Next

\* Whatever happens, the server sees at most one call.
LEMMA NextServed == Basics /\ Next => Served
<1> SUFFICES ASSUME Basics, Next PROVE Served
  OBVIOUS
<1>1. TypeOK /\ PlanInv /\ ResolveInv
  BY DEF Basics
<1>2. /\ \A f \in Folder, n \in Name : disk[f][n] # NoFile => disk[f][n] \in Content
      /\ \A n \in Name : IdOf(rows, n) \in Nat
      /\ \A n \in Name : entries[n].id \in Nat
      /\ \A k \in Slot : /\ resolve[k] \in Resolve /\ resolve[k].id \in Nat
                         /\ resolve[k].name \in Name
      /\ run.left \subseteq Name /\ run.name \in Name
  BY <1>1, Typed
<1>3. ASSUME NEW id \in Nat, TryDelete(id) PROVE Served
  BY <1>3 DEF TryDelete, Served
<1>4. CASE Replace
  BY <1>2, <1>3, <1>4 DEF Replace
<1>5. CASE Upload \/ UploadUnanswered
  <2>1. run.folder \in Folder
    BY <1>1, <1>5 DEF Upload, UploadUnanswered, PlanInv
  <2> QED
    BY <1>2, <1>5, <2>1 DEF Upload, UploadUnanswered, Served
<1>6. CASE RemoveRemote
  BY <1>2, <1>3, <1>6 DEF RemoveRemote, Served
<1>7. CASE syncNow \/ List \/ Diff \/ Download \/ Downloaded \/ PassOver \/ RecordConflict
           \/ RemoveLocal \/ EndActions \/ UploadNext \/ EndUploads \/ Finish \/ RunThrows
  BY <1>7 DEF syncNow, List, Diff, Download, Downloaded, PassOver, RecordConflict, RemoveLocal,
     EndActions, UploadNext, EndUploads, Finish, RunThrows, Step, Served
<1>8. ASSUME NEW k \in Slot, Resolution(k) PROVE Served
  <2>1. resolve[k].pc # "idle" => resolve[k].folder \in Folder /\ (File(k) # NoFile => File(k) \in Content)
    BY <1>1, <1>2 DEF ResolveInv, File
  <2>2. CASE KeepLocalDelete(k)
    BY <1>2, <1>3, <2>2 DEF KeepLocalDelete
  <2>3. CASE KeepLocalUpload(k)
    BY <1>2, <2>1, <2>3 DEF KeepLocalUpload, Served
  <2>4. CASE KeepBothUpload(k)
    <3>1. /\ resolve[k].name \in PlainName /\ resolve[k].content # NoFile
          /\ ServerCreate(CopyName[resolve[k].name], resolve[k].content)
      BY <1>1, <2>4 DEF KeepBothUpload, ResolveInv, Copying
    <3>2. CopyName[resolve[k].name] \in Name /\ resolve[k].content \in Content
      BY <1>2, <3>1, WebSyncAssumption DEF PlainName, Resolve
    <3> QED
      BY <3>1, <3>2 DEF Served
  <2>5. CASE KeepLocalDone(k) \/ AdoptRemote(k) \/ Adopted(k) \/ Dismiss(k) \/ ResolveFails(k)
    BY <2>5 DEF KeepLocalDone, AdoptRemote, Adopted, Dismiss, ResolveFails, Served
  <2> QED
    BY <1>8, <2>2, <2>3, <2>4, <2>5 DEF Resolution
<1>9. ASSUME NEW n \in Name, World(n) PROVE Served
  <2>1. CASE \E f \in Folder : UserRemove(f, n) \/ \E c \in Content : UserWrite(f, n, c)
    BY <2>1 DEF UserRemove, UserWrite, Served
  <2>2. CASE (\E c \in Content : DevicePut(n, c)) \/ DeviceDrop(n)
    BY <1>2, <2>2 DEF DevicePut, DeviceDrop, Served
  <2> QED
    BY <1>9, <2>1, <2>2 DEF World
<1>10. ASSUME NEW k \in Slot, NEW n \in Name, Button(k, n) PROVE Served
  BY <1>10 DEF Button, KeepLocal, KeepRemote, KeepBoth, Click, Served
<1>11. CASE (\E f \in Folder : Choose(f)) \/ Chosen \/ Reload
  BY <1>11 DEF Choose, Chosen, Reload, Served
<1> QED
  BY <1>4, <1>5, <1>6, <1>7, <1>8, <1>9, <1>10, <1>11, NextSteps DEF Reconcile

Marks == [Folder -> SUBSET Name]

MarksOK == touched \in Marks /\ stray \in Marks /\ crossed \in Marks

\* Names are only ever added to and taken from what is kept of a folder.
LEMMA MarksTyped ==
  ASSUME TypeOK
  PROVE  /\ \A f, n : SyncedNow(f, n) => touched' \in Marks /\ stray' \in Marks
         /\ \A f, N : N \subseteq Name /\ Cross(f, N) => crossed' \in Marks
         /\ \A m \in Marks : \A f, N : N \subseteq Name =>
              [m EXCEPT ![f] = @ \cup N] \in Marks /\ [m EXCEPT ![f] = @ \ N] \in Marks
         /\ MarksOK
<1>1. MarksOK
  BY DEF TypeOK, MarksOK, Marks
<1>2. ASSUME NEW m \in Marks, NEW f, NEW N, N \subseteq Name
      PROVE  [m EXCEPT ![f] = @ \cup N] \in Marks /\ [m EXCEPT ![f] = @ \ N] \in Marks
  BY <1>2 DEF Marks
<1>3. ASSUME NEW f, NEW n, SyncedNow(f, n) PROVE touched' \in Marks /\ stray' \in Marks
  BY <1>1, <1>3 DEF SyncedNow, MarksOK, Marks
<1>4. ASSUME NEW f, NEW N, N \subseteq Name, Cross(f, N) PROVE crossed' \in Marks
  BY <1>1, <1>4 DEF Cross, MarksOK, Marks
<1> QED
  BY <1>1, <1>2, <1>3, <1>4

LEMMA MarksStay ==
  ASSUME TypeOK, ResolveInv, Next
  PROVE  MarksOK'
<1>1. /\ MarksOK
      /\ \A f, n : SyncedNow(f, n) => touched' \in Marks /\ stray' \in Marks
      /\ \A f, N : N \subseteq Name /\ Cross(f, N) => crossed' \in Marks
  BY MarksTyped
<1>2. /\ \A k \in Slot : Overtaken(k) \subseteq Name
      /\ \A r : WorkedOn(r) \subseteq Name
      /\ \A f : InResolution(f) \subseteq Name
  BY DEF Overtaken, WorkedOn, InResolution
<1>3. \A f, n, m : n \in Name /\ m \in Marks => [m EXCEPT ![f] = @ \cup {n}] \in Marks
  BY MarksTyped
<1>4. \A f, n, m : n \in Name /\ m \in Marks => [m EXCEPT ![f] = @ \ {n}] \in Marks
  BY MarksTyped
<1>5. ASSUME UNCHANGED marks PROVE MarksOK'
  BY <1>1, <1>5 DEF marks, MarksOK
<1>6. CASE Reconcile
  <2>1. CASE Download \/ Upload
    BY <1>1, <2>1 DEF Download, Upload, MarksOK
  <2>2. CASE RemoveLocal
    <3>1. PICK n \in run.left :
            \/ SyncedNow(run.folder, n)
            \/ stray' = [stray EXCEPT ![run.folder] = @ \cup {n}] /\ UNCHANGED touched
      BY <2>2 DEF RemoveLocal
    <3>2. n \in Name /\ UNCHANGED crossed
      BY <2>2, Typed DEF RemoveLocal
    <3>3. SyncedNow(run.folder, n) => touched' \in Marks /\ stray' \in Marks
      BY <1>1
    <3>4. [stray EXCEPT ![run.folder] = @ \cup {n}] \in Marks
      BY <1>1, <1>3, <3>2 DEF MarksOK
    <3> QED
      BY <1>1, <3>1, <3>2, <3>3, <3>4 DEF MarksOK
  <2>3. CASE Finish
    BY <1>1, <2>3 DEF Finish, MarksOK
  <2>4. CASE ~Download /\ ~Upload /\ ~RemoveLocal /\ ~Finish
    BY <1>5, <1>6, <2>4 DEF Reconcile, List, Diff, Downloaded, PassOver, RecordConflict, EndActions,
       UploadNext, Replace, UploadUnanswered, EndUploads, RemoveRemote, RunThrows, Step, watch
  <2> QED
    BY <2>1, <2>2, <2>3, <2>4
<1>7. CASE syncNow
  BY <1>1, <1>2, <1>7 DEF syncNow, MarksOK
<1>8. ASSUME NEW k \in Slot, Resolution(k) PROVE MarksOK'
  <2>1. CASE KeepLocalUpload(k) \/ KeepBothUpload(k)
    BY <1>1, <2>1 DEF KeepLocalUpload, KeepBothUpload, MarksOK
  <2>2. CASE KeepLocalDone(k)
    BY <1>1, <1>2, <2>2 DEF KeepLocalDone, Settle, MarksOK
  <2>3. resolve[k].name \in Name
    BY Typed
  <2>4. CASE Adopted(k)
    <3>1. /\ Cross(handle, Overtaken(k)) /\ UNCHANGED touched
          /\ stray' = [stray EXCEPT ![resolve[k].folder] = @ \ {resolve[k].name}]
      BY <2>4 DEF Adopted, Settle
    <3> QED
      BY <1>1, <1>2, <1>4, <2>3, <3>1 DEF MarksOK
  <2>5. CASE AdoptRemote(k)
    <3>1. /\ touched' = [touched EXCEPT ![resolve[k].folder] = @ \ {resolve[k].name}]
          /\ stray' = [stray EXCEPT ![resolve[k].folder] = @ \cup {resolve[k].name}]
          /\ UNCHANGED crossed
      BY <2>5 DEF AdoptRemote
    <3> QED
      BY <1>1, <1>3, <1>4, <2>3, <3>1 DEF MarksOK
  <2>6. CASE ResolveFails(k)
    <3>1. CASE resolve[k].pc \in Copying
      <4>1. CopyName[resolve[k].name] \in Name
        BY <3>1, WebSyncAssumption DEF ResolveInv, PlainName
      <4>2. touched' = [touched EXCEPT ![resolve[k].folder] = @ \cup {CopyName[resolve[k].name]}]
            /\ UNCHANGED <<stray, crossed>>
        BY <2>6, <3>1 DEF ResolveFails, Copying
      <4> QED
        BY <1>1, <1>3, <4>1, <4>2 DEF MarksOK
    <3>2. CASE resolve[k].pc \notin Copying
      BY <1>5, <2>6, <3>2 DEF ResolveFails, Copying, marks
    <3> QED
      BY <3>1, <3>2
  <2>7. CASE KeepLocalDelete(k) \/ Dismiss(k)
    BY <1>5, <2>7 DEF KeepLocalDelete, Dismiss, watch
  <2> QED
    BY <1>8, <2>1, <2>2, <2>4, <2>5, <2>6, <2>7 DEF Resolution
<1>9. ASSUME NEW k \in Slot, NEW n \in Name, Button(k, n) PROVE MarksOK'
  <2>1. ASSUME NEW pc, NEW c, Click(k, n, pc, c) PROVE crossed' \in Marks
    BY <1>1, <1>2, <2>1 DEF Click
  <2>2. CASE KeepLocal(k, n) \/ KeepRemote(k, n)
    BY <1>1, <2>1, <2>2 DEF KeepLocal, KeepRemote, MarksOK
  <2>3. CASE KeepBoth(k, n)
    <3>1. CopyName[n] \in Name
      BY <2>3, WebSyncAssumption DEF KeepBoth, PlainName
    <3>2. touched' = [touched EXCEPT ![handle] = @ \cup {CopyName[n]}] /\ UNCHANGED stray
      BY <2>3 DEF KeepBoth
    <3>3. crossed' \in Marks
      BY <1>1, <2>1, <2>3 DEF KeepBoth, MarksOK
    <3> QED
      BY <1>1, <1>3, <3>1, <3>2, <3>3 DEF MarksOK
  <2> QED
    BY <1>9, <2>2, <2>3 DEF Button
<1>10. ASSUME NEW n \in Name, World(n) PROVE MarksOK'
  <2>1. CASE \E f \in Folder : UserRemove(f, n) \/ \E c \in Content : UserWrite(f, n, c)
    <3>1. PICK f \in Folder : touched' = [touched EXCEPT ![f] = @ \cup {n}]
      BY <2>1 DEF UserRemove, UserWrite
    <3>2. UNCHANGED <<stray, crossed>>
      BY <2>1 DEF UserRemove, UserWrite
    <3> QED
      BY <1>1, <1>3, <3>1, <3>2 DEF MarksOK
  <2>2. CASE (\E c \in Content : DevicePut(n, c)) \/ DeviceDrop(n)
    BY <1>5, <2>2 DEF DevicePut, DeviceDrop
  <2> QED
    BY <1>10, <2>1, <2>2 DEF World
<1>11. CASE Chosen
  <2>1. [crossed EXCEPT ![choose.folder] = {}] \in Marks
    BY <1>1 DEF MarksOK, Marks
  <2> QED
    BY <1>1, <1>11, <2>1 DEF Chosen, MarksOK
<1>12. CASE Reload
  BY <1>1, <1>12 DEF Reload, MarksOK
<1>13. ASSUME NEW f \in Folder, Choose(f) PROVE MarksOK'
  BY <1>5, <1>13 DEF Choose
<1> QED
  BY <1>6, <1>7, <1>8, <1>9, <1>10, <1>11, <1>12, <1>13, NextSteps

\* The state but for the server, the run, the resolutions and the histories.
RestOK ==
  /\ disk \in [Folder -> Manifest]
  /\ handle \in Folder \cup {NoFolder} /\ state \in SyncState
  /\ conflicts \in [Name -> Nat]
  /\ saved \in [handle: Folder \cup {NoFolder}, state: SyncState]
  /\ choose \in [pc: {"idle", "saved"}, folder: Folder \cup {NoFolder}, same: BOOLEAN]
  /\ moves \in Nat

LEMMA RestTyped == TypeOK => RestOK
BY DEF TypeOK, RestOK

LEMMA RestStays ==
  ASSUME RestOK, UNCHANGED <<disk, memory, saved, choose>>,
         UNCHANGED moves \/ \E kind : Move(kind)
  PROVE  RestOK'
<1>1. moves' \in Nat
  BY DEF Move, RestOK
<1>2. UNCHANGED <<disk, handle, state, conflicts, saved, choose>>
  BY DEF memory
<1> QED
  BY <1>1, <1>2 DEF RestOK

LEMMA RunTypes ==
  ASSUME TypeOK, PlanInv, ServerInv, CursorInv, syncNow \/ Reconcile
  PROVE  RestOK' /\ run' \in Run /\ UNCHANGED resolve
<1>1. RestOK
  BY RestTyped
<1>2. /\ \A n \in Name : IdOf(rows, n) \in Nat
      /\ run.left \subseteq Name /\ run.name \in Name /\ run.remote \in [Name -> Nat]
      /\ run.conflicts \in [Name -> Nat] /\ run.newVersion \in Nat
      /\ entries \in [Name -> Entry]
  BY Typed
<1>3. CASE syncNow
  <2>1. RestOK' /\ UNCHANGED resolve
    BY <1>1, <1>3, RestStays DEF syncNow
  <2> QED
    BY <1>3, <2>1, BeginFields
<1>step. ASSUME NEW r, Step(r) PROVE RestOK' /\ UNCHANGED resolve
  BY <1>1, <1>step, RestStays DEF Step, watch
<1>4. CASE List \/ Diff
  <2>1. run' \in Run
    BY <1>4, BeginFields DEF Prepares
  <2> QED
    BY <1>4, <1>step, <2>1 DEF List, Diff
<1>5. CASE Downloaded \/ PassOver \/ RecordConflict \/ EndActions
  <2>1. run' \in Run
    BY <1>5, ActionFields DEF Becomes
  <2> QED
    BY <1>5, <1>step, <2>1 DEF Downloaded, PassOver, RecordConflict, EndActions
<1>6. CASE UploadNext \/ EndUploads
  <2>1. run' \in Run
    BY <1>6, UploadFields DEF Becomes
  <2> QED
    BY <1>6, <1>step, <2>1 DEF UploadNext, EndUploads
<1>7. CASE Download
  <2> DEFINE n == NextAction.name  c == RowOf(run.remote[n]).content
  <2>1. n \in Name /\ run' \in Run
    BY <1>7, ActionFields DEF Becomes
  <2>2. c \in Content /\ run.folder \in Folder
    BY <1>7, RowFound DEF Download, TypeOK, PlanInv, Acting
  <2>3. /\ disk' = [disk EXCEPT ![run.folder][n] = c]
        /\ UNCHANGED <<memory, saved, resolve, choose, moves>>
    BY <1>7 DEF Download
  <2> HIDE DEF n, c
  <2> QED
    BY <1>1, <2>1, <2>2, <2>3 DEF RestOK, Manifest, memory
<1>8. CASE RemoveLocal
  <2>1. PICK n \in run.left :
          /\ \/ disk' = [disk EXCEPT ![run.folder][n] = NoFile] /\ UNCHANGED moves
             \/ Move("stuck") /\ UNCHANGED disk
          /\ run' \in Run
    BY <1>8, ActionFields DEF Becomes
  <2>2. n \in Name /\ run.folder \in Folder
        /\ UNCHANGED <<handle, state, conflicts, saved, resolve, choose>>
    BY <1>2, <1>8, <2>1 DEF RemoveLocal, PlanInv, memory
  <2>disk. disk' \in [Folder -> Manifest]
    <3>1. CASE disk' = [disk EXCEPT ![run.folder][n] = NoFile]
      BY <1>1, <2>2, <3>1 DEF RestOK, Manifest
    <3>2. CASE UNCHANGED disk
      BY <1>1, <3>2 DEF RestOK
    <3> QED
      BY <2>1, <3>1, <3>2
  <2>3. moves' \in Nat
    BY <1>1, <2>1 DEF RestOK, Move
  <2> QED
    BY <1>1, <2>1, <2>2, <2>disk, <2>3 DEF RestOK
<1>9. CASE Replace \/ RemoveRemote
  <2>1. run' \in Run
    BY <1>9, UploadFields DEF Becomes
  <2>2. /\ UNCHANGED <<disk, memory, saved, choose>> /\ UNCHANGED resolve
        /\ UNCHANGED moves \/ \E kind : Move(kind)
    BY <1>9 DEF Replace, RemoveRemote, TryDelete
  <2>3. RestOK'
    BY <1>1, <2>2, RestStays
  <2> QED
    BY <2>1, <2>2, <2>3
<1>upload. CASE Upload
  <2>1. run' \in Run
    BY <1>upload, UploadFields DEF Becomes
  <2>2. UNCHANGED <<disk, handle, state, conflicts, saved, resolve, choose, moves>>
    BY <1>upload DEF Upload, memory
  <2> QED
    BY <1>1, <2>1, <2>2 DEF RestOK
<1>10. CASE UploadUnanswered \/ RunThrows
  <2>1. /\ UNCHANGED <<disk, memory, saved, choose>> /\ UNCHANGED resolve
        /\ UNCHANGED moves \/ \E kind : Move(kind)
        /\ run' = NoRun
    BY <1>10 DEF UploadUnanswered, RunThrows
  <2>2. RestOK'
    BY <1>1, <2>1, RestStays
  <2> QED
    BY <2>1, <2>2, Shapes
<1>11. CASE Finish
  <2> DEFINE next == [cursor |-> run.newVersion, entries |-> entries]
  <2>1. next \in SyncState
    BY <1>2 DEF SyncState
  <2>2. /\ state' = next /\ conflicts' = run.conflicts /\ saved' = [saved EXCEPT !.state = next]
        /\ run' = NoRun /\ UNCHANGED <<disk, handle, resolve, choose, moves>>
    BY <1>11 DEF Finish
  <2> HIDE DEF next
  <2> QED
    BY <1>1, <1>2, <2>1, <2>2, Shapes DEF RestOK
<1> QED
  BY <1>3, <1>4, <1>5, <1>6, <1>7, <1>8, <1>9, <1>upload, <1>10, <1>11 DEF Reconcile

LEMMA ResolutionTypes ==
  ASSUME TypeOK, ResolveInv, ServerInv, NEW k \in Slot, Resolution(k)
  PROVE  RestOK' /\ resolve' \in [Slot -> Resolve] /\ ResolveInv' /\ UNCHANGED run
<1> DEFINE q == resolve[k]  n == q.name
<1>1. RestOK /\ n \in Name
  BY RestTyped, Typed
<1>2. /\ q.pc # "idle" => q.folder \in Folder
      /\ q.pc \in Copying => n \in PlainName /\ CopyName[n] \in Name
  BY WebSyncAssumption DEF ResolveInv, PlainName
<1>3. ASSUME NEW pc, NEW created, NEW content, Advanced(k, pc, created, content),
             q.pc # "idle",
             pc \in {"localDone"} \cup Copying => content # NoFile,
             pc \in Copying => n \in PlainName
      PROVE  ResolveInv' /\ resolve' \in [Slot -> Resolve]
  BY <1>3 DEF Advanced, Others, ResolveInv
<1>4. Ended(k) => ResolveInv' /\ resolve' \in [Slot -> Resolve]
  BY DEF Ended, Others, ResolveInv, NoResolve, Copying
<1>5. ASSUME NEW new, Settled(k, new), UNCHANGED <<disk, handle, conflicts, choose, moves>>,
             q.pc # "idle"
      PROVE  RestOK' /\ resolve' \in [Slot -> Resolve] /\ ResolveInv'
  <2>1. ResolveInv' /\ resolve' \in [Slot -> Resolve]
    BY <1>3, <1>5 DEF Settled, Copying
  <2>2. RestOK'
    BY <1>1, <1>5 DEF Settled, RestOK
  <2> QED
    BY <2>1, <2>2
<1>6. CASE KeepLocalDelete(k)
  <2>1. Advanced(k, "localUpload", q.created, q.content) /\ q.pc # "idle"
    BY <1>6, ResolutionFields DEF KeepLocalDelete
  <2>2. ResolveInv' /\ resolve' \in [Slot -> Resolve]
    BY <1>3, <2>1 DEF Copying
  <2>3. /\ UNCHANGED <<disk, memory, saved, choose>> /\ UNCHANGED run
        /\ UNCHANGED moves \/ \E kind : Move(kind)
    BY <1>6 DEF KeepLocalDelete, TryDelete
  <2> QED
    BY <1>1, <2>2, <2>3, RestStays
<1>7. CASE KeepLocalUpload(k)
  <2>1. Advanced(k, "localDone", clock + 1, File(k)) /\ q.pc # "idle" /\ File(k) # NoFile
    BY <1>7, ResolutionFields DEF KeepLocalUpload
  <2>2. ResolveInv' /\ resolve' \in [Slot -> Resolve]
    BY <1>3, <2>1 DEF Copying
  <2>3. UNCHANGED <<disk, handle, state, conflicts, saved, run, choose, moves>>
    BY <1>7 DEF KeepLocalUpload, memory
  <2> QED
    BY <1>1, <2>2, <2>3 DEF RestOK
<1>8. CASE AdoptRemote(k)
  <2> DEFINE c == RowOf(q.id).content
             pc == IF q.pc = "fetch" THEN "adopted" ELSE "copyAdopted"
  <2>1. Advanced(k, pc, q.created, q.content) /\ q.pc \in {"fetch", "copyFetch"}
    BY <1>8, ResolutionFields DEF AdoptRemote
  <2>2. ResolveInv' /\ resolve' \in [Slot -> Resolve]
    <3>1. pc \in {"localDone"} \cup Copying => q.pc \in Copying
      BY <2>1 DEF Copying
    <3> HIDE DEF pc
    <3>2. pc \in {"localDone"} \cup Copying => q.content # NoFile
      BY <3>1 DEF ResolveInv
    <3>3. pc \in Copying => n \in PlainName
      BY <3>1, <1>2
    <3> QED
      BY <1>3, <2>1, <3>2, <3>3
  <2>3. c \in Content /\ q.folder \in Folder
    BY <1>2, <1>8, RowFound DEF AdoptRemote, TypeOK
  <2>4. /\ disk' = [disk EXCEPT ![q.folder][n] = c]
        /\ UNCHANGED <<handle, state, conflicts, saved, run, choose, moves>>
    BY <1>8 DEF AdoptRemote, memory
  <2> HIDE DEF c, pc, n
  <2>5. disk' \in [Folder -> Manifest]
    BY <1>1, <2>3, <2>4 DEF RestOK, Manifest
  <2> QED
    BY <1>1, <2>2, <2>4, <2>5 DEF RestOK
<1>9. CASE KeepBothUpload(k)
  <2>1. Advanced(k, "copyFetch", clock + 1, q.content) /\ q.pc = "copyUpload"
    BY <1>9, ResolutionFields DEF KeepBothUpload
  <2>2. ResolveInv' /\ resolve' \in [Slot -> Resolve]
    BY <1>2, <1>3, <2>1 DEF Copying, ResolveInv
  <2>3. UNCHANGED <<disk, handle, state, conflicts, saved, run, choose, moves>>
    BY <1>9 DEF KeepBothUpload, memory
  <2> QED
    BY <1>1, <2>2, <2>3 DEF RestOK
<1>10. CASE KeepLocalDone(k)
  <2>1. PICK new : Settled(k, new)
    BY <1>10, ResolutionFields
  <2>2. UNCHANGED <<disk, handle, conflicts, choose, run, moves>> /\ q.pc # "idle"
    BY <1>10 DEF KeepLocalDone
  <2> QED
    BY <1>5, <2>1, <2>2
<1>11. CASE Adopted(k)
  <2>1. q.pc \in {"adopted", "copyAdopted"}
    BY <1>11 DEF Adopted
  <2>2. PICK new : Settled(k, new)
    BY <1>11, <2>1, ResolutionFields
  <2>3. UNCHANGED <<disk, handle, conflicts, choose, run, moves>>
    BY <1>11 DEF Adopted
  <2> QED
    BY <1>5, <2>1, <2>2, <2>3
<1>12. CASE Dismiss(k)
  <2>1. Ended(k) /\ conflicts' \in [Name -> Nat]
    BY <1>12, ResolutionFields
  <2>2. UNCHANGED <<disk, handle, state, saved, run, choose, moves>>
    BY <1>12 DEF Dismiss, watch
  <2> QED
    BY <1>1, <1>4, <2>1, <2>2 DEF RestOK
<1>13. CASE ResolveFails(k)
  <2>1. Ended(k) /\ UNCHANGED <<handle, state, conflicts, saved, run, choose>>
    BY <1>13, ResolutionFields DEF ResolveFails, memory
  <2>2. ResolveInv' /\ resolve' \in [Slot -> Resolve]
    BY <1>4, <2>1
  <2>3. moves' \in Nat
    BY <1>1, <1>13 DEF ResolveFails, Move, RestOK
  <2>4. disk' \in [Folder -> Manifest]
    <3>1. CASE q.pc \in Copying
      <4>1. /\ disk' = [disk EXCEPT ![q.folder][CopyName[n]] = NoFile]
            /\ q.folder \in Folder /\ CopyName[n] \in Name
        BY <1>2, <1>13, <3>1 DEF ResolveFails, Copying
      <4> HIDE DEF n
      <4> QED
        BY <1>1, <4>1 DEF RestOK, Manifest
    <3>2. CASE q.pc \notin Copying
      BY <1>1, <1>13, <3>2 DEF ResolveFails, Copying, RestOK
    <3> QED
      BY <3>1, <3>2
  <2> QED
    BY <1>1, <2>1, <2>2, <2>3, <2>4 DEF RestOK
<1> QED
  BY <1>6, <1>7, <1>8, <1>9, <1>10, <1>11, <1>12, <1>13 DEF Resolution

\* A click takes the state as it is.
LEMMA ClickFields ==
  ASSUME TypeOK, NEW k \in Slot, NEW n \in Name, NEW content \in Content \cup {NoFile},
         NEW pc \in {"localDelete", "fetch", "copyUpload"}, Click(k, n, pc, content)
  PROVE  /\ resolve' \in [Slot -> Resolve] /\ Others(k)
         /\ resolve'[k] = [pc |-> pc, name |-> n, folder |-> handle, id |-> conflicts[n],
                           created |-> 0, content |-> content, state |-> state]
         /\ handle \in Folder /\ moves' \in Nat /\ conflicts[n] # 0
         /\ UNCHANGED <<server, memory, saved, run, choose>>
<1> DEFINE r == [pc |-> pc, name |-> n, folder |-> handle, id |-> conflicts[n],
                 created |-> 0, content |-> content, state |-> state]
<1>1. /\ resolve \in [Slot -> Resolve] /\ handle \in Folder /\ conflicts[n] \in Nat
      /\ state \in SyncState /\ moves' \in Nat
  BY DEF TypeOK, Click, Move
<1>2. r \in Resolve
  BY <1>1 DEF Resolve
<1>3. resolve' = [resolve EXCEPT ![k] = r]
  BY DEF Click
<1> HIDE DEF r
<1>4. resolve' \in [Slot -> Resolve] /\ Others(k)
  BY <1>1, <1>2, <1>3 DEF Others
<1>5. resolve'[k] = r
  BY <1>1, <1>3
<1> QED
  BY <1>1, <1>4, <1>5 DEF Click, r

\* A button, pressed: the click, or KeepBoth's error path.
LEMMA ButtonFields ==
  ASSUME TypeOK, NEW k \in Slot, NEW n \in Name, Button(k, n)
  PROVE  /\ UNCHANGED <<server, memory, saved, run, choose, stray>>
         /\ handle \in Folder /\ conflicts[n] # 0
         /\ \/ UNCHANGED <<disk, touched>>
            \/ /\ n \in PlainName /\ CopyName[n] \in Name
               /\ disk' = [disk EXCEPT ![handle][CopyName[n]] = disk[handle][n]]
               /\ touched' = [touched EXCEPT ![handle] = @ \cup {CopyName[n]}]
         /\ \/ Move("resolve") /\ UNCHANGED <<resolve, crossed>>
            \/ \E pc \in {"localDelete", "fetch", "copyUpload"},
                  c \in Content \cup {NoFile} :
                 /\ Click(k, n, pc, c)
                 /\ pc = "copyUpload" =>
                      /\ n \in PlainName /\ c # NoFile /\ c = disk[handle][n]
                      /\ CopyName[n] \in Name
                      /\ disk' = [disk EXCEPT ![handle][CopyName[n]] = c]
<1>1. /\ handle \in Folder
      /\ disk[handle][n] \in Content \cup {NoFile}
      /\ n \in PlainName => CopyName[n] \in Name
      /\ conflicts[n] # 0
  BY WebSyncAssumption
  DEF Button, KeepLocal, KeepRemote, KeepBoth, Click, TypeOK, Manifest, PlainName
<1>2. CASE KeepLocal(k, n)
  BY <1>1, <1>2 DEF KeepLocal, Click
<1>3. CASE KeepRemote(k, n)
  BY <1>1, <1>3 DEF KeepRemote, Click
<1>4. CASE KeepBoth(k, n)
  <2>1. CASE disk[handle][n] # NoFile
    <3>1. Click(k, n, "copyUpload", disk[handle][n])
      BY <1>4, <2>1 DEF KeepBoth
    <3> QED
      BY <1>1, <1>4, <2>1, <3>1 DEF KeepBoth, Click
  <2>2. CASE disk[handle][n] = NoFile
    BY <1>1, <1>4, <2>2 DEF KeepBoth
  <2> QED
    BY <2>1, <2>2
<1> QED
  BY <1>2, <1>3, <1>4 DEF Button

LEMMA ButtonTypes ==
  ASSUME TypeOK, ResolveInv, NEW k \in Slot, NEW n \in Name, Button(k, n)
  PROVE  RestOK' /\ resolve' \in [Slot -> Resolve] /\ ResolveInv' /\ UNCHANGED run
<1>1. RestOK /\ resolve \in [Slot -> Resolve]
  BY RestTyped DEF TypeOK
<1>2. /\ UNCHANGED <<handle, state, conflicts, saved, run, choose>> /\ handle \in Folder
      /\ \/ UNCHANGED disk
         \/ /\ CopyName[n] \in Name
            /\ disk' = [disk EXCEPT ![handle][CopyName[n]] = disk[handle][n]]
      /\ \/ Move("resolve") /\ UNCHANGED resolve
         \/ \E pc \in {"localDelete", "fetch", "copyUpload"}, c \in Content \cup {NoFile} :
              Click(k, n, pc, c) /\ (pc = "copyUpload" => n \in PlainName /\ c # NoFile)
  BY ButtonFields DEF memory
<1>3. disk' \in [Folder -> Manifest]
  <2>1. CASE UNCHANGED disk
    BY <1>1, <2>1 DEF RestOK
  <2>2. ASSUME CopyName[n] \in Name,
               disk' = [disk EXCEPT ![handle][CopyName[n]] = disk[handle][n]]
        PROVE  disk' \in [Folder -> Manifest]
    <3> DEFINE c == disk[handle][n]
    <3>1. c \in Content \cup {NoFile} /\ disk' = [disk EXCEPT ![handle][CopyName[n]] = c]
      BY <1>1, <1>2, <2>2 DEF RestOK, Manifest
    <3> HIDE DEF c
    <3> QED
      BY <1>1, <1>2, <2>2, <3>1 DEF RestOK, Manifest
  <2> QED
    BY <1>2, <2>1, <2>2
<1>4. CASE Move("resolve") /\ UNCHANGED resolve
  <2>1. moves' \in Nat
    BY <1>1, <1>4 DEF Move, RestOK
  <2>2. ResolveInv'
    BY <1>4 DEF ResolveInv
  <2> QED
    BY <1>1, <1>2, <1>3, <1>4, <2>1, <2>2 DEF RestOK
<1>5. ASSUME NEW pc \in {"localDelete", "fetch", "copyUpload"}, NEW c \in Content \cup {NoFile},
             Click(k, n, pc, c), pc = "copyUpload" => n \in PlainName /\ c # NoFile
      PROVE  RestOK' /\ resolve' \in [Slot -> Resolve] /\ ResolveInv' /\ UNCHANGED run
  <2>1. /\ resolve' \in [Slot -> Resolve] /\ Others(k) /\ moves' \in Nat
        /\ resolve'[k] = [pc |-> pc, name |-> n, folder |-> handle, id |-> conflicts[n],
                          created |-> 0, content |-> c, state |-> state]
    BY <1>5, ClickFields
  <2>2. /\ resolve'[k].pc = pc /\ resolve'[k].folder = handle /\ resolve'[k].content = c
        /\ resolve'[k].name = n
    BY <2>1
  <2>3. ResolveInv'
    BY <1>2, <1>5, <2>1, <2>2 DEF ResolveInv, Copying, Others
  <2> QED
    BY <1>1, <1>2, <1>3, <2>1, <2>3 DEF RestOK
<1> QED
  BY <1>2, <1>4, <1>5

LEMMA WorldTypes ==
  ASSUME TypeOK, NEW n \in Name, World(n)
  PROVE  RestOK' /\ UNCHANGED <<run, resolve>>
<1>1. RestOK
  BY RestTyped
<1>2. ASSUME NEW f \in Folder, UserRemove(f, n) \/ \E c \in Content : UserWrite(f, n, c)
      PROVE  RestOK' /\ UNCHANGED <<run, resolve>>
  <2>1. PICK c \in Content \cup {NoFile} : disk' = [disk EXCEPT ![f][n] = c]
    BY <1>2 DEF UserRemove, UserWrite
  <2>2. UNCHANGED <<handle, state, conflicts, saved, choose, run, resolve>>
    BY <1>2 DEF UserRemove, UserWrite, memory, jobs
  <2>3. moves' \in Nat
    BY <1>1, <1>2 DEF UserRemove, UserWrite, Move, RestOK
  <2>4. disk' \in [Folder -> Manifest]
    BY <1>1, <2>1 DEF RestOK, Manifest
  <2> QED
    BY <1>1, <2>2, <2>3, <2>4 DEF RestOK
<1>3. CASE (\E c \in Content : DevicePut(n, c)) \/ DeviceDrop(n)
  <2>1. /\ UNCHANGED <<disk, memory, saved, choose>> /\ UNCHANGED <<run, resolve>>
        /\ \E kind : Move(kind)
    BY <1>3 DEF DevicePut, DeviceDrop, jobs
  <2>2. RestOK'
    BY <1>1, <2>1, RestStays
  <2> QED
    BY <2>1, <2>2
<1> QED
  BY <1>2, <1>3 DEF World

LEMMA ChoiceTypes ==
  ASSUME TypeOK, (\E f \in Folder : Choose(f)) \/ Chosen \/ Reload
  PROVE  /\ RestOK'
         /\ \/ UNCHANGED <<run, resolve>>
            \/ run' = NoRun /\ resolve' = [k \in Slot |-> NoResolve]
<1>1. RestOK
  BY RestTyped
<1>2. ASSUME NEW f \in Folder, Choose(f) PROVE RestOK'
  <2> DEFINE b == saved.handle = f
  <2>1. /\ choose' = [pc |-> "saved", folder |-> f, same |-> b]
        /\ saved' = [saved EXCEPT !.handle = f]
        /\ UNCHANGED <<disk, handle, state, conflicts>>
    BY <1>2 DEF Choose, memory
  <2>2. moves' \in Nat
    BY <1>1, <1>2 DEF Choose, Move, RestOK
  <2>3. b \in BOOLEAN
    OBVIOUS
  <2> HIDE DEF b
  <2>4. choose' \in [pc: {"idle", "saved"}, folder: Folder \cup {NoFolder}, same: BOOLEAN]
    BY <2>1, <2>3
  <2> QED
    BY <1>1, <2>1, <2>2, <2>4 DEF RestOK
<1>3. NoChoice \in [pc: {"idle", "saved"}, folder: Folder \cup {NoFolder}, same: BOOLEAN]
  <2>1. FALSE \in BOOLEAN
    OBVIOUS
  <2> QED
    BY <2>1 DEF NoChoice
<1>4. ASSUME Chosen PROVE RestOK'
  <2>1. /\ saved' = IF choose.same THEN saved ELSE [saved EXCEPT !.state = emptySyncState]
        /\ handle' = choose.folder /\ state' = saved'.state /\ conflicts' = NoConflict
        /\ choose' = NoChoice
        /\ UNCHANGED <<disk, moves>>
    BY <1>4 DEF Chosen
  <2>2. saved' \in [handle: Folder \cup {NoFolder}, state: SyncState]
    BY <1>1, <2>1, Shapes DEF RestOK
  <2>3. handle' \in Folder \cup {NoFolder}
    BY <1>1, <2>1 DEF RestOK
  <2>4. state' \in SyncState /\ conflicts' \in [Name -> Nat]
    BY <2>1, <2>2, Shapes
  <2>5. choose' \in [pc: {"idle", "saved"}, folder: Folder \cup {NoFolder}, same: BOOLEAN]
    BY <1>3, <2>1, Zenon
  <2>6. disk' \in [Folder -> Manifest] /\ moves' \in Nat
    BY <1>1, <2>1 DEF RestOK
  <2> QED
    BY <2>2, <2>3, <2>4, <2>5, <2>6 DEF RestOK
<1>5. ASSUME Reload PROVE RestOK'
  <2>1. /\ handle' = saved.handle
        /\ state' = IF saved.handle = NoFolder THEN emptySyncState ELSE saved.state
        /\ conflicts' = NoConflict /\ choose' = NoChoice
        /\ UNCHANGED <<disk, saved>>
    BY <1>5 DEF Reload
  <2>2. moves' \in Nat
    BY <1>1, <1>5 DEF Reload, Move, RestOK
  <2>3. state' \in SyncState /\ conflicts' \in [Name -> Nat] /\ handle' \in Folder \cup {NoFolder}
    BY <1>1, <2>1, Shapes DEF RestOK
  <2>4. choose' \in [pc: {"idle", "saved"}, folder: Folder \cup {NoFolder}, same: BOOLEAN]
    BY <1>3, <2>1, Zenon
  <2>5. /\ disk' \in [Folder -> Manifest]
        /\ saved' \in [handle: Folder \cup {NoFolder}, state: SyncState]
    BY <1>1, <2>1 DEF RestOK
  <2> QED
    BY <2>2, <2>3, <2>4, <2>5 DEF RestOK
<1> QED
  BY <1>2, <1>4, <1>5 DEF Choose, Chosen, Reload

-----------------------------------------------------------------------------
(* The basic invariants are inductive *)

LEMMA EndFields ==
  ASSUME run' = NoRun
  PROVE  /\ run'.pc = "idle" /\ run'.state = emptySyncState /\ run'.conflicts = NoConflict
         /\ run'.changed = {} /\ run'.deleted = {} /\ run'.newVersion = 0 /\ run'.left = {}
         /\ run'.remote = [n \in Name |-> 0]
BY DEF NoRun

LEMMA PlanSteps ==
  ASSUME TypeOK, PlanInv, ServerInv, CursorInv, syncNow \/ Reconcile
  PROVE  PlanInv'
<1>1. run' = NoRun => PlanInv'
  BY EndFields DEF PlanInv, Sending
<1>2. CASE syncNow \/ List \/ Diff
  <2>1. run'.folder \in Folder /\ run'.pc \in {"list", "diff", "act"}
    BY <1>2, BeginFields DEF Prepares, List, Diff, PlanInv
  <2> QED
    BY <2>1 DEF PlanInv, Sending
<1>3. ASSUME NEW pc, NEW new, NEW conflicted, NEW changed, NEW downloaded, NEW left, NEW name,
             run.pc # "idle", Becomes(pc, new, conflicted, changed, downloaded, left, name)
      PROVE  /\ run'.folder \in Folder
             /\ pc \in {"act", "written"} /\ (pc = "written" => changed # {}) => PlanInv'
  BY <1>3 DEF Becomes, PlanInv, Sending
<1>4. CASE Download \/ Downloaded \/ PassOver \/ RecordConflict \/ RemoveLocal
  <2>1. run.pc # "idle"
    BY <1>4 DEF Download, Downloaded, PassOver, RecordConflict, RemoveLocal, Acting
  <2>2. CASE Download
    <3>1. /\ Becomes("written", entries, run.conflicts, run.changed, run.downloaded, run.left,
                     run.name)
          /\ run.changed # {}
      BY <2>2, ActionFields
    <3> QED
      BY <1>3, <2>1, <3>1
  <2>3. CASE Downloaded \/ PassOver \/ RecordConflict \/ RemoveLocal
    <3>1. \E new, conflicted, changed, downloaded, left, name :
            Becomes("act", new, conflicted, changed, downloaded, left, name)
      BY <2>3, ActionFields
    <3> QED
      BY <1>3, <2>1, <3>1
  <2> QED
    BY <1>4, <2>2, <2>3
<1>5. CASE EndActions
  <2>1. run.pc # "idle"
        /\ Becomes("uploads", entries, run.conflicts, run.changed, run.downloaded, ToSend,
                   run.name)
    BY <1>5, ActionFields DEF EndActions
  <2> QED
    BY <1>3, <2>1 DEF Becomes, PlanInv, ToSend, Conflicted, Sending
<1>6. CASE UploadNext
  <2>1. PICK n \in run.left, pc \in Sending :
          Becomes(pc, entries, run.conflicts, run.changed, run.downloaded, run.left \ {n}, n)
    BY <1>6, UploadFields
  <2>2. run.pc = "uploads"
    BY <1>6 DEF UploadNext
  <2> QED
    BY <1>3, <2>1, <2>2 DEF Becomes, PlanInv, ToSend, Conflicted, Sending
<1>7. CASE Replace \/ Upload
  <2>1. PICK pc, new :
          /\ pc \in {"upload", "uploads"}
          /\ Becomes(pc, new, run.conflicts, run.changed, run.downloaded, run.left, run.name)
    BY <1>7, UploadFields
  <2>2. run.pc \in Sending
    BY <1>7 DEF Replace, Upload, Sending
  <2> QED
    BY <1>3, <2>1, <2>2 DEF Becomes, PlanInv, ToSend, Conflicted, Sending
<1>8. CASE EndUploads
  <2>1. run.pc = "uploads"
        /\ Becomes("removals", entries, run.conflicts, run.changed, run.downloaded,
                   RemovedLocally, run.name)
    BY <1>8, UploadFields DEF EndUploads
  <2>2. RemovedLocally \subseteq Missing
    BY DEF RemovedLocally, Missing
  <2> QED
    BY <1>3, <2>1, <2>2 DEF Becomes, PlanInv, Missing, Conflicted, Sending
<1>9. CASE RemoveRemote
  <2>1. PICK n, new :
          /\ n \in run.left
          /\ Becomes("removals", new, run.conflicts, run.changed, run.downloaded,
                     run.left \ {n}, run.name)
    BY <1>9, UploadFields
  <2>2. run.pc = "removals"
    BY <1>9 DEF RemoveRemote
  <2> QED
    BY <1>3, <2>1, <2>2 DEF Becomes, PlanInv, Missing, Conflicted, Sending
<1>10. CASE UploadUnanswered \/ RunThrows \/ Finish
  BY <1>1, <1>10 DEF UploadUnanswered, RunThrows, Finish
<1> QED
  BY <1>2, <1>4, <1>5, <1>6, <1>7, <1>8, <1>9, <1>10 DEF Reconcile

\* A run that has its report keeps what the report said.
LEMMA ReportKept ==
  ASSUME TypeOK, PlanInv, Reconcile, run.pc \in Acted, run' # NoRun
  PROVE  /\ run'.pc \in Acted /\ run'.folder = run.folder /\ run'.scan = run.scan
         /\ run'.unreadable = run.unreadable /\ run'.remote = run.remote
         /\ run'.deleted = run.deleted /\ run'.newVersion = run.newVersion
         /\ run'.state.cursor = run.state.cursor
         /\ UNCHANGED <<handle, state, conflicts, saved, resolve, choose>>
<1> DEFINE Goes(pc) == \E new, conflicted, changed, downloaded, left, name :
                          Becomes(pc, new, conflicted, changed, downloaded, left, name)
<1>1. \E pc \in Acted : Goes(pc)
  <2>1. ~List /\ ~Diff /\ ~UploadUnanswered /\ ~RunThrows /\ ~Finish
    BY DEF List, Diff, UploadUnanswered, RunThrows, Finish, Acted
  <2>2. CASE Download \/ Downloaded \/ PassOver \/ RecordConflict \/ RemoveLocal \/ EndActions
    <3>1. \E pc \in {"act", "written", "uploads"} : Goes(pc)
      BY <2>2, ActionFields
    <3> QED
      BY <3>1 DEF Acted
  <2>3. CASE UploadNext \/ Replace \/ Upload \/ EndUploads \/ RemoveRemote
    <3>1. \E pc \in Sending \cup {"uploads", "removals"} : Goes(pc)
      BY <2>3, UploadFields DEF Sending
    <3> QED
      BY <3>1 DEF Acted, Sending
  <2> QED
    BY <2>1, <2>2, <2>3 DEF Reconcile
<1>2. UNCHANGED <<memory, saved, resolve, choose>>
  BY DEF Reconcile, List, Diff, UploadUnanswered, RunThrows, Finish, Download, Downloaded,
     PassOver, RecordConflict, RemoveLocal, EndActions, UploadNext, Replace, Upload, EndUploads,
     RemoveRemote, Step
<1> QED
  BY <1>1, <1>2 DEF Becomes, memory

LEMMA RunCursors ==
  ASSUME TypeOK, PlanInv, ServerInv, CursorInv, Advances, ServerTypeOK', syncNow \/ Reconcile
  PROVE  CursorInv'
<1>1. /\ clock \in Nat /\ clock' \in Nat /\ clock <= clock' /\ run.state.cursor \in Nat
      /\ state.cursor \in Nat /\ saved.state.cursor \in Nat /\ run.newVersion \in Nat
      /\ \A k \in Slot : resolve[k].state.cursor \in Nat
      /\ run.scan \in Manifest /\ emptySyncState.cursor = 0
  BY Shapes DEF TypeOK, Run, Resolve, SyncState, Advances, ServerTypeOK
<1>2. UNCHANGED resolve
  BY RunTypes
<1>3. ASSUME state' = state, saved' = saved, run'.state.cursor <= clock,
             run'.state.cursor \in Nat, run'.newVersion \in Nat,
             run'.newVersion <= clock,
             run'.pc \in Acted => run'.state.cursor <= run'.newVersion
      PROVE  CursorInv'
  BY <1>1, <1>2, <1>3 DEF CursorInv
<1>4. CASE syncNow
  <2>1. run'.state = state /\ run'.newVersion = 0 /\ run'.pc = "list"
        /\ state' = state /\ saved' = saved
    BY <1>4, BeginFields DEF syncNow, memory
  <2> QED
    BY <1>1, <1>3, <2>1 DEF Acted, CursorInv
<1>5. CASE List
  <2>1. run'.state = run.state /\ run'.newVersion = run.newVersion /\ run'.pc = "diff"
        /\ state' = state /\ saved' = saved
    BY <1>5, BeginFields DEF List, Prepares, Step, memory
  <2> QED
    BY <1>1, <1>3, <2>1 DEF Acted, CursorInv
<1>6. CASE Diff
  <2>1. run'.state = run.state /\ run'.newVersion = NewVersion(rows, gone, run.state.cursor)
        /\ state' = state /\ saved' = saved
    BY <1>6, BeginFields DEF Diff, Prepares, Step, memory
  <2>2. /\ NewVersion(rows, gone, run.state.cursor) \in Nat
        /\ run.state.cursor <= NewVersion(rows, gone, run.state.cursor)
        /\ NewVersion(rows, gone, run.state.cursor) <= clock
    BY <1>1, Report DEF TypeOK, CursorInv
  <2> QED
    BY <1>1, <1>3, <2>1, <2>2
<1>7. CASE Reconcile /\ run.pc \in Acted /\ run' # NoRun
  BY <1>1, <1>3, <1>7, ReportKept DEF CursorInv
<1>8. CASE run' = NoRun /\ ~Finish
  <2>1. state' = state /\ saved' = saved
    <3>1. UploadUnanswered \/ RunThrows => UNCHANGED <<memory, saved>>
      BY DEF UploadUnanswered, RunThrows
    <3>2. ~UploadUnanswered /\ ~RunThrows => run'.pc # "idle"
      <4>1. syncNow \/ List \/ Diff => run'.pc # "idle"
        BY BeginFields DEF Prepares
      <4>2. Download \/ Downloaded \/ PassOver \/ RecordConflict \/ RemoveLocal \/ EndActions
              => run'.pc # "idle"
        BY ActionFields DEF Becomes
      <4>3. UploadNext \/ Replace \/ Upload \/ EndUploads \/ RemoveRemote => run'.pc # "idle"
        BY UploadFields DEF Becomes, Sending
      <4> QED
        BY <1>8, <4>1, <4>2, <4>3 DEF Reconcile
    <3> QED
      BY <1>8, <3>1, <3>2, EndFields DEF memory
  <2> QED
    BY <1>1, <1>3, <1>8, <2>1, EndFields DEF Acted
<1>9. CASE Finish
  <2> DEFINE next == [cursor |-> run.newVersion, entries |-> entries]
  <2>1. state' = next /\ saved'.state = next /\ run' = NoRun
    BY <1>9 DEF Finish, TypeOK
  <2>2. next.cursor = run.newVersion
    OBVIOUS
  <2> HIDE DEF next
  <2> QED
    BY <1>1, <1>2, <2>1, <2>2, EndFields DEF CursorInv, Acted
<1>10. Reconcile /\ ~List /\ ~Diff => run.pc \in Acted \/ run' = NoRun
  BY DEF Reconcile, Download, Downloaded, PassOver, RecordConflict, RemoveLocal, EndActions,
     UploadNext, Replace, Upload, UploadUnanswered, EndUploads, RemoveRemote, Finish, RunThrows,
     Acting, Acted
<1> QED
  BY <1>4, <1>5, <1>6, <1>7, <1>8, <1>9, <1>10

\* Every state that is kept, captured or taken is one there was.
LEMMA OtherCursors ==
  ASSUME Basics, clock <= clock', clock' \in Nat,
         \/ UNCHANGED run
         \/ run' = NoRun,
         \/ \E k \in Slot : Resolution(k) \/ \E n \in Name : Button(k, n)
         \/ \E n \in Name : World(n)
         \/ \E f \in Folder : Choose(f)
         \/ Chosen \/ Reload
  PROVE  CursorInv'
<1>1. /\ TypeOK /\ ResolveInv /\ CursorInv /\ ServerInv /\ emptySyncState.cursor = 0 /\ clock \in Nat
      /\ state.cursor \in Nat /\ saved.state.cursor \in Nat
      /\ run.state.cursor \in Nat /\ run.newVersion \in Nat
      /\ \A k \in Slot : resolve[k].state.cursor \in Nat
  BY Shapes DEF Basics, TypeOK, Run, Resolve, SyncState, ServerTypeOK
<1>2. ASSUME state'.cursor \in Nat, state'.cursor <= clock,
             saved'.state.cursor \in Nat, saved'.state.cursor <= clock,
             \A k \in Slot : resolve'[k].state.cursor \in Nat /\ resolve'[k].state.cursor <= clock
      PROVE  CursorInv'
  <2>1. CASE UNCHANGED run
    BY <1>1, <1>2, <2>1 DEF CursorInv
  <2>2. CASE run' = NoRun
    BY <1>1, <1>2, <2>2, EndFields DEF CursorInv, Acted
  <2> QED
    BY <2>1, <2>2
<1>3. ASSUME NEW k \in Slot, Resolution(k) PROVE CursorInv'
  <2>1. CASE UNCHANGED <<state, saved>> /\ \E pc, created, content : Advanced(k, pc, created, content)
    BY <1>1, <1>2, <2>1 DEF Advanced, Others, CursorInv
  <2>2. CASE UNCHANGED <<state, saved>> /\ Ended(k)
    BY <1>1, <1>2, <2>2 DEF Ended, Others, CursorInv, NoResolve
  <2>3. CASE \E new : Settled(k, new)
    BY <1>1, <1>2, <2>3 DEF Settled, Advanced, Others, CursorInv
  <2>4. CASE KeepLocalDelete(k) \/ KeepLocalUpload(k) \/ AdoptRemote(k) \/ KeepBothUpload(k)
    <3>1. UNCHANGED <<state, saved>>
      BY <2>4 DEF KeepLocalDelete, KeepLocalUpload, AdoptRemote, KeepBothUpload, memory
    <3> QED
      BY <1>1, <2>1, <2>4, <3>1, ResolutionFields
  <2>5. CASE KeepLocalDone(k) \/ Adopted(k)
    <3>1. Adopted(k) => resolve[k].pc \in {"adopted", "copyAdopted"}
      BY DEF Adopted
    <3> QED
      BY <1>1, <2>3, <2>5, <3>1, ResolutionFields
  <2>6. CASE ResolveFails(k) \/ Dismiss(k)
    BY <1>1, <2>2, <2>6, ResolutionFields DEF ResolveFails, Dismiss, memory
  <2> QED
    BY <1>3, <2>4, <2>5, <2>6 DEF Resolution
<1>4. ASSUME NEW k \in Slot, NEW n \in Name, Button(k, n) PROVE CursorInv'
  <2>1. UNCHANGED <<state, saved>>
    BY <1>1, <1>4, ButtonFields DEF memory
  <2>2. CASE UNCHANGED resolve
    BY <1>1, <1>2, <2>1, <2>2 DEF CursorInv
  <2>3. ASSUME NEW pc \in {"localDelete", "fetch", "copyUpload"},
               NEW content \in Content \cup {NoFile}, Click(k, n, pc, content)
        PROVE  CursorInv'
    <3>1. /\ Others(k)
          /\ resolve'[k] = [pc |-> pc, name |-> n, folder |-> handle, id |-> conflicts[n],
                            created |-> 0, content |-> content, state |-> state]
      BY <1>1, <2>3, ClickFields
    <3>2. resolve'[k].state = state
      BY <3>1
    <3> QED
      BY <1>1, <1>2, <2>1, <3>1, <3>2 DEF CursorInv, Others
  <2> QED
    BY <1>1, <1>4, <2>2, <2>3, ButtonFields
<1>5. ASSUME NEW n \in Name, World(n) PROVE CursorInv'
  <2>1. UNCHANGED <<state, saved, resolve>>
    BY <1>5 DEF World, UserRemove, UserWrite, DevicePut, DeviceDrop, memory, jobs
  <2> QED
    BY <1>1, <1>2, <2>1 DEF CursorInv
<1>6. ASSUME NEW f \in Folder, Choose(f) PROVE CursorInv'
  <2>1. saved'.state = saved.state /\ UNCHANGED <<state, resolve>>
    BY <1>1, <1>6 DEF Choose, memory, TypeOK
  <2> QED
    BY <1>1, <1>2, <2>1 DEF CursorInv
<1>7. CASE Chosen
  <2>1. saved'.state \in {saved.state, emptySyncState} /\ state' = saved'.state
        /\ UNCHANGED resolve
    BY <1>1, <1>7 DEF Chosen, TypeOK
  <2> QED
    BY <1>1, <1>2, <2>1 DEF CursorInv
<1>8. CASE Reload
  <2>1. state' \in {saved.state, emptySyncState} /\ saved' = saved
        /\ resolve' = [k \in Slot |-> NoResolve]
    BY <1>1, <1>8 DEF Reload
  <2> QED
    BY <1>1, <1>2, <2>1 DEF CursorInv, NoResolve
<1> QED
  BY <1>3, <1>4, <1>5, <1>6, <1>7, <1>8

LEMMA BasicsInit == Init => Basics
<1> SUFFICES ASSUME Init PROVE Basics
  OBVIOUS
<1>1. run = NoRun /\ resolve = [k \in Slot |-> NoResolve] /\ NoRun.pc = "idle"
      /\ NoRun.newVersion = 0 /\ NoRun.state = emptySyncState
  BY DEF Init, NoRun
<1>2. TypeOK
  <2>1. choose \in [pc: {"idle", "saved"}, folder: Folder \cup {NoFolder}, same: BOOLEAN]
    <3>1. FALSE \in BOOLEAN
      OBVIOUS
    <3> QED
      BY <3>1 DEF Init, NoChoice
  <2> QED
    BY <1>1, <2>1, Shapes DEF Init, ServerInit, TypeOK, ServerTypeOK
<1>3. PlanInv /\ ResolveInv /\ CursorInv
  BY <1>1, Shapes
  DEF Init, ServerInit, PlanInv, Sending, ResolveInv, Copying, NoResolve, CursorInv, Acted
<1>4. ServerInv
  BY DEF Init, ServerInit, ServerInv
<1> QED
  BY <1>2, <1>3, <1>4 DEF Basics

\* What the proofs of one step start from.
LEMMA StepServed ==
  ASSUME Basics, Next
  PROVE  ServerTypeOK' /\ ServerInv' /\ Advances /\ clock \in Nat /\ clock' \in Nat
BY NextServed, ServerSteps DEF Basics, TypeOK, ServerTypeOK

LEMMA BasicsNext == Basics /\ [Next]_vars => Basics'
<1> SUFFICES ASSUME Basics, [Next]_vars PROVE Basics'
  OBVIOUS
<1>1. CASE UNCHANGED vars
  BY <1>1 DEF vars, Basics, TypeOK, ServerTypeOK, ServerInv, PlanInv, ToSend, Missing,
     Conflicted, ResolveInv, CursorInv
<1>2. Next => ServerTypeOK' /\ ServerInv' /\ Advances /\ clock <= clock' /\ clock' \in Nat
  BY StepServed DEF Advances
<1>3. ASSUME Next, RestOK', run' \in Run, resolve' \in [Slot -> Resolve], PlanInv', ResolveInv',
             CursorInv'
      PROVE  Basics'
  <2>1. MarksOK'
    BY <1>3, MarksStay DEF Basics
  <2>2. TypeOK'
    BY <1>2, <1>3, <2>1 DEF TypeOK, RestOK, MarksOK, Marks
  <2> QED
    BY <1>2, <1>3, <2>2 DEF Basics
<1>4. ASSUME syncNow \/ Reconcile, Next PROVE Basics'
  <2>1. RestOK' /\ run' \in Run /\ UNCHANGED resolve
    BY <1>4, RunTypes DEF Basics
  <2>2. PlanInv'
    BY <1>4, PlanSteps DEF Basics
  <2>3. CursorInv'
    BY <1>2, <1>4, RunCursors DEF Basics
  <2>4. ResolveInv' /\ resolve' \in [Slot -> Resolve]
    BY <2>1 DEF Basics, ResolveInv, TypeOK
  <2> QED
    BY <1>3, <1>4, <2>1, <2>2, <2>3, <2>4
<1>5. ASSUME Next,
             \/ \E k \in Slot : Resolution(k) \/ \E n \in Name : Button(k, n)
             \/ \E n \in Name : World(n)
      PROVE  Basics'
  <2>1. RestOK' /\ resolve' \in [Slot -> Resolve] /\ ResolveInv' /\ UNCHANGED run
    <3>1. CASE \E n \in Name : World(n)
      BY <3>1, WorldTypes DEF Basics, TypeOK, ResolveInv
    <3>2. CASE \E k \in Slot : Resolution(k)
      BY <3>2, ResolutionTypes DEF Basics
    <3>3. CASE \E k \in Slot, n \in Name : Button(k, n)
      BY <3>3, ButtonTypes DEF Basics
    <3> QED
      BY <1>5, <3>1, <3>2, <3>3
  <2>2. CursorInv'
    BY <1>2, <1>5, <2>1, OtherCursors
  <2>3. PlanInv' /\ run' \in Run
    BY <2>1 DEF Basics, TypeOK, PlanInv, ToSend, Missing, Conflicted
  <2> QED
    BY <1>3, <1>5, <2>1, <2>2, <2>3
<1>6. ASSUME (\E f \in Folder : Choose(f)) \/ Chosen \/ Reload, Next PROVE Basics'
  <2>1. RestOK' /\ \/ UNCHANGED <<run, resolve>>
                   \/ run' = NoRun /\ resolve' = [k \in Slot |-> NoResolve]
    BY <1>6, ChoiceTypes DEF Basics
  <2>2. CursorInv'
    BY <1>2, <1>6, <2>1, OtherCursors
  <2>3. PlanInv' /\ run' \in Run
    <3>1. CASE UNCHANGED run
      BY <3>1 DEF Basics, TypeOK, PlanInv, ToSend, Missing, Conflicted
    <3>2. CASE run' = NoRun
      BY <3>2, EndFields, Shapes DEF PlanInv, Sending
    <3> QED
      BY <2>1, <3>1, <3>2
  <2>4. ResolveInv' /\ resolve' \in [Slot -> Resolve]
    <3>1. NoResolve.pc = "idle" /\ NoResolve \in Resolve
      BY Shapes DEF NoResolve
    <3>2. CASE UNCHANGED resolve
      BY <3>2 DEF Basics, ResolveInv, TypeOK
    <3>3. CASE resolve' = [k \in Slot |-> NoResolve]
      BY <3>1, <3>3 DEF ResolveInv, Copying
    <3> QED
      BY <2>1, <3>2, <3>3
  <2> QED
    BY <1>3, <1>6, <2>1, <2>2, <2>3, <2>4
<1> QED
  BY <1>1, <1>4, <1>5, <1>6, NextSteps

\* In every reachable state the variables have their types, no state that is kept
\* or captured is ahead of the server, and a run has left to do only what it found.
THEOREM TypesCorrect == Spec => [](TypeOK /\ PlanInv /\ CursorInv)
<1>1. Spec => []Basics
  BY BasicsInit, BasicsNext, PTL DEF Spec
<1>2. Basics => TypeOK /\ PlanInv /\ CursorInv
  BY DEF Basics
<1> QED
  BY <1>1, <1>2, PTL

-----------------------------------------------------------------------------
(* No ghost entries *)

GhostFree(graves, s) == \A g \in graves : g.version <= s.cursor => s.entries[g.name].id # g.id

\* The deletion of a row that a client with version v has been told of.
Passed(graves, v, id) == \E g \in graves : g.version <= v /\ g.id = id

\* The entries of a run that has its report: the ghosts of the version it will
\* finish with are among the deletions it has yet to apply.
RunGhosts ==
  /\ run.pc \in Acted =>
       \A g \in gone : g.version <= run.newVersion =>
         \/ entries[g.name].id # g.id
         \/ InActions /\ g.name \in run.left
  /\ run.pc = "written" => ~Passed(gone, run.newVersion, run.remote[NextAction.name])

\* What a resolution holds: the state it captured, and the ids it will record.
Unhaunted(graves, q) ==
  /\ GhostFree(graves, q.state)
  /\ q.pc \in {"localDone", "copyFetch", "copyAdopted"}
       => ~Passed(graves, q.state.cursor, q.created)
  /\ q.pc \in {"adopted", "copyAdopted"} => ~Passed(graves, q.state.cursor, q.id)

GhostInv ==
  /\ GhostFree(gone, state) /\ GhostFree(gone, saved.state)
  /\ run.pc \in {"idle", "list", "diff"} => GhostFree(gone, run.state)
  /\ RunGhosts
  /\ \A k \in Slot : Unhaunted(gone, resolve[k])

\* A new tombstone is ahead of every cursor there is.
LEMMA StaysFree ==
  ASSUME ServerTypeOK, ServerTypeOK', Advances
  PROVE  /\ \A s : s.cursor \in Nat /\ s.cursor <= clock /\ GhostFree(gone, s)
                     => GhostFree(gone', s)
         /\ \A v, id : v \in Nat /\ v <= clock /\ ~Passed(gone, v, id) => ~Passed(gone', v, id)
<1>1. /\ \A g \in gone' : g.version \in Nat /\ (g \notin gone => g.version > clock)
      /\ clock \in Nat
  BY DEF ServerTypeOK, Advances, Tombstone
<1> QED
  BY <1>1 DEF GhostFree, Passed

LEMMA NothingHaunted ==
  ASSUME NEW graves, \A g \in graves : g.name \in Name /\ g.id # 0
  PROVE  GhostFree(graves, emptySyncState) /\ Unhaunted(graves, NoResolve)
<1>1. GhostFree(graves, emptySyncState)
  BY Shapes DEF GhostFree, NoEntry
<1> QED
  BY <1>1 DEF Unhaunted, NoResolve

LEMMA RunGhostSteps ==
  ASSUME Basics, GhostInv, Next, syncNow \/ Reconcile
  PROVE  GhostInv'
<1>1. /\ TypeOK /\ PlanInv /\ ServerInv /\ CursorInv /\ ServerTypeOK /\ ServerTypeOK' /\ ServerInv'
      /\ Advances /\ clock \in Nat /\ clock' \in Nat
  BY StepServed DEF Basics, TypeOK
<1>2. /\ \A k \in Slot : resolve[k].state.cursor \in Nat /\ resolve[k].state.cursor <= clock
      /\ state.cursor \in Nat /\ state.cursor <= clock
      /\ saved.state.cursor \in Nat /\ saved.state.cursor <= clock
      /\ run.state.cursor \in Nat /\ run.state.cursor <= clock
      /\ run.newVersion \in Nat /\ run.newVersion <= clock
      /\ entries \in [Name -> Entry]
  BY <1>1, Typed DEF TypeOK, Resolve, SyncState, CursorInv
<1>3. \A k \in Slot : Unhaunted(gone', resolve'[k])
  <2>1. UNCHANGED resolve
    BY <1>1, RunTypes
  <2> QED
    BY <1>1, <1>2, <2>1, StaysFree DEF GhostInv, Unhaunted
<1>4. UNCHANGED <<state, saved>> => GhostFree(gone', state') /\ GhostFree(gone', saved'.state)
  BY <1>1, <1>2, StaysFree DEF GhostInv
<1>5. ASSUME run' = NoRun
      PROVE  /\ run'.pc \in {"idle", "list", "diff"} => GhostFree(gone', run'.state)
             /\ RunGhosts'
  <2>1. GhostFree(gone', emptySyncState)
    <3>1. \A g \in gone' : g.name \in Name /\ g.id # 0
      BY <1>1 DEF ServerTypeOK, ServerInv, Tombstone
    <3> QED
      BY <3>1, NothingHaunted
  <2> QED
    BY <1>5, <2>1, EndFields DEF RunGhosts, Acted
<1>6. CASE syncNow \/ List
  <2>1. /\ run'.pc \in {"list", "diff"} /\ run'.state \in {state, run.state}
        /\ run'.state = run.state => run.pc = "list" \/ run'.state = state
        /\ UNCHANGED <<state, saved>>
    BY <1>1, <1>6, BeginFields DEF syncNow, List, Step, Prepares, memory
  <2>2. GhostFree(gone', run'.state)
    BY <1>1, <1>2, <2>1, StaysFree DEF GhostInv
  <2> QED
    BY <1>3, <1>4, <2>1, <2>2 DEF GhostInv, RunGhosts, Acted
<1>7. CASE Diff
  <2>1. /\ run'.pc = "act" /\ run'.state = run.state
        /\ run'.left = DeleteActions(gone, run.state.cursor)
        /\ UNCHANGED <<state, saved, gone>> /\ run.pc = "diff"
    BY <1>1, <1>7, BeginFields DEF Diff, Step, Prepares, memory, server
  <2>2. \A g \in gone : g.version > run.state.cursor => g.name \in run'.left
    BY <2>1 DEF DeleteActions, Deleted
  <2>3. \A g \in gone : g.version \in Nat
    BY <1>1 DEF ServerTypeOK, Tombstone
  <2>4. \A g \in gone : entries'[g.name].id # g.id \/ g.name \in run'.left
    BY <1>2, <2>1, <2>2, <2>3 DEF GhostInv, GhostFree, entries
  <2>5. RunGhosts'
    BY <2>1, <2>4 DEF RunGhosts, InActions
  <2> QED
    BY <1>3, <1>4, <2>1, <2>5 DEF GhostInv
<1>8. ASSUME run.pc \in Acted, run' # NoRun, Reconcile,
             \A g \in gone : g.version <= run.newVersion =>
               \/ entries'[g.name].id # g.id
               \/ InActions' /\ g.name \in run'.left,
             run'.pc = "written" =>
               ~Passed(gone, run.newVersion, run'.remote[NextAction'.name])
      PROVE  GhostInv'
  <2>1. run'.pc \in Acted /\ run'.newVersion = run.newVersion /\ UNCHANGED <<state, saved>>
    BY <1>1, <1>8, ReportKept
  <2>2. \A g \in gone' : g.version \in Nat /\ (g \notin gone => g.version > clock)
    BY <1>1 DEF Advances, ServerTypeOK, Tombstone
  <2>3. \A g \in gone' : g.version <= run.newVersion => g \in gone
    BY <1>1, <1>2, <2>2
  <2>4. RunGhosts'
    BY <1>1, <1>2, <1>8, <2>1, <2>3, StaysFree DEF RunGhosts, Passed
  <2> QED
    BY <1>3, <1>4, <2>1, <2>4 DEF GhostInv, Acted
<1>9. ASSUME run.pc \in Acted
      PROVE  \A g \in gone : g.version <= run.newVersion =>
               \/ entries[g.name].id # g.id
               \/ InActions /\ g.name \in run.left
  BY <1>9 DEF GhostInv, RunGhosts
<1>10. \A g \in gone : g.id # 0 /\ g.id <= clock /\ g.name \in Name /\ g.id \in Nat
  BY <1>1 DEF ServerInv, ServerTypeOK, Tombstone
<1>11. CASE Download
  <2>1. /\ Becomes("written", entries, run.conflicts, run.changed, run.downloaded, run.left,
                   run.name)
        /\ run.pc = "act" /\ Exists(run.remote[NextAction.name])
    BY <1>1, <1>11, ActionFields DEF Download, Acting
  <2>2. /\ run'.pc = "written" /\ entries' = entries /\ run'.left = run.left
        /\ NextAction' = NextAction /\ run'.remote = run.remote /\ run' # NoRun
    BY <2>1, EndFields DEF Becomes, NextAction, entries
  <2>3. \A g \in gone : g.id # run.remote[NextAction.name]
    BY <1>1, <2>1, RowFound
  <2> QED
    BY <1>8, <1>9, <1>11, <2>1, <2>2, <2>3 DEF Reconcile, Acted, InActions, Passed
<1>12. CASE Downloaded
  <2> DEFINE n == NextAction.name
             e == [id |-> run.remote[n], content |-> disk[run.folder][n]]
  <2>1. /\ Becomes("act", [entries EXCEPT ![n] = e], run.conflicts, run.changed \ {NextAction},
                   run.downloaded \cup {n}, run.left, run.name)
        /\ run.pc = "written" /\ n \in Name
    BY <1>1, <1>12, ActionFields DEF Downloaded
  <2>2. e.id = run.remote[n]
    OBVIOUS
  <2> HIDE DEF e
  <2>3. /\ run'.pc = "act" /\ entries' = [entries EXCEPT ![n] = e] /\ run'.left = run.left
        /\ run' # NoRun
    BY <2>1, EndFields DEF Becomes, entries
  <2>4. \A g \in gone : g.version <= run.newVersion => g.id # run.remote[n]
    BY <2>1 DEF GhostInv, RunGhosts, Passed
  <2>5. \A g \in gone : g.version <= run.newVersion =>
          entries'[g.name].id # g.id \/ g.name \in run'.left
    BY <1>2, <1>9, <1>10, <2>1, <2>2, <2>3, <2>4 DEF Acted
  <2> QED
    BY <1>8, <1>12, <2>1, <2>3, <2>5 DEF Reconcile, Acted, InActions
<1>13. CASE PassOver \/ RecordConflict
  <2>1. \E conflicted, changed :
          Becomes("act", entries, conflicted, changed, run.downloaded, run.left, run.name)
    BY <1>1, <1>13, ActionFields
  <2>2. run.pc = "act"
    BY <1>13 DEF PassOver, RecordConflict, Acting
  <2>3. run'.pc = "act" /\ entries' = entries /\ run'.left = run.left /\ run' # NoRun
    BY <2>1, EndFields DEF Becomes, entries
  <2> QED
    BY <1>8, <1>9, <1>13, <2>2, <2>3 DEF Reconcile, Acted, InActions
<1>14. CASE RemoveLocal
  <2>1. PICK n \in run.left :
          Becomes("act", [entries EXCEPT ![n] = NoEntry], run.conflicts, run.changed,
                  run.downloaded, run.left \ {n}, run.name)
    BY <1>1, <1>14, ActionFields
  <2>2. run.pc = "act" /\ n \in Name
    BY <1>1, <1>14, Typed DEF RemoveLocal
  <2>3. /\ run'.pc = "act" /\ entries' = [entries EXCEPT ![n] = NoEntry]
        /\ run'.left = run.left \ {n} /\ run' # NoRun
    BY <2>1, EndFields DEF Becomes, entries
  <2>4. \A g \in gone : g.version <= run.newVersion =>
          entries'[g.name].id # g.id \/ g.name \in run'.left
    BY <1>2, <1>9, <1>10, <2>2, <2>3 DEF Acted, NoEntry
  <2> QED
    BY <1>8, <1>14, <2>2, <2>3, <2>4 DEF Reconcile, Acted, InActions
<1>15. CASE EndActions
  <2>1. Becomes("uploads", entries, run.conflicts, run.changed, run.downloaded, ToSend, run.name)
        /\ run.pc = "act" /\ run.left = {}
    BY <1>1, <1>15, ActionFields DEF EndActions
  <2>2. run'.pc = "uploads" /\ entries' = entries /\ run' # NoRun
    BY <2>1, EndFields DEF Becomes, entries
  <2> QED
    BY <1>8, <1>9, <1>15, <2>1, <2>2 DEF Reconcile, Acted
<1>16. ASSUME UploadNext \/ Replace \/ EndUploads PROVE GhostInv'
  <2>1. \E pc, left, name :
          /\ pc \in Acted \ {"act", "written"}
          /\ Becomes(pc, entries, run.conflicts, run.changed, run.downloaded, left, name)
    BY <1>1, <1>16, UploadFields DEF Sending, Acted
  <2>2. run.pc \in Acted \ {"act", "written"}
    BY <1>16 DEF UploadNext, Replace, EndUploads, Acted
  <2>3. run'.pc \in Acted \ {"written"} /\ entries' = entries /\ run' # NoRun
    BY <2>1, EndFields DEF Becomes, entries, Acted
  <2> QED
    BY <1>8, <1>9, <1>16, <2>2, <2>3 DEF Reconcile, Acted, InActions
<1>17. CASE Upload
  <2> DEFINE e == [id |-> clock + 1, content |-> run.scan[run.name]]
  <2>1. /\ Becomes("uploads", [entries EXCEPT ![run.name] = e], run.conflicts, run.changed,
                   run.downloaded, run.left, run.name)
        /\ run.pc = "upload" /\ run.name \in Name
    BY <1>1, <1>17, UploadFields, Typed DEF Upload
  <2>2. e.id = clock + 1
    OBVIOUS
  <2> HIDE DEF e
  <2>3. /\ run'.pc = "uploads" /\ entries' = [entries EXCEPT ![run.name] = e] /\ run' # NoRun
    BY <2>1, EndFields DEF Becomes, entries
  <2>4. \A g \in gone : g.version <= run.newVersion => entries'[g.name].id # g.id
    BY <1>1, <1>2, <1>9, <1>10, <2>1, <2>2, <2>3 DEF Acted, InActions
  <2> QED
    BY <1>8, <1>17, <2>1, <2>3, <2>4 DEF Reconcile, Acted
<1>18. CASE RemoveRemote
  <2>1. PICK n \in run.left :
          Becomes("removals", [entries EXCEPT ![n] = NoEntry], run.conflicts, run.changed,
                  run.downloaded, run.left \ {n}, run.name)
    BY <1>1, <1>18, UploadFields
  <2>2. run.pc = "removals" /\ n \in Name
    BY <1>1, <1>18, Typed DEF RemoveRemote
  <2>3. run'.pc = "removals" /\ entries' = [entries EXCEPT ![n] = NoEntry] /\ run' # NoRun
    BY <2>1, EndFields DEF Becomes, entries
  <2>4. \A g \in gone : g.version <= run.newVersion => entries'[g.name].id # g.id
    BY <1>2, <1>9, <1>10, <2>2, <2>3 DEF Acted, InActions, NoEntry
  <2> QED
    BY <1>8, <1>18, <2>2, <2>3, <2>4 DEF Reconcile, Acted
<1>19. CASE UploadUnanswered \/ RunThrows
  <2>1. run' = NoRun /\ UNCHANGED <<state, saved>>
    BY <1>19 DEF UploadUnanswered, RunThrows, memory
  <2> QED
    BY <1>3, <1>4, <1>5, <2>1 DEF GhostInv
<1>20. CASE Finish
  <2> DEFINE next == [cursor |-> run.newVersion, entries |-> entries]
  <2>1. state' = next /\ saved'.state = next /\ run' = NoRun /\ UNCHANGED gone
        /\ run.pc = "removals"
    BY <1>1, <1>20 DEF Finish, TypeOK, server
  <2>2. GhostFree(gone, next)
    BY <1>9, <2>1 DEF GhostFree, Acted, InActions
  <2> HIDE DEF next
  <2> QED
    BY <1>3, <1>5, <2>1, <2>2 DEF GhostInv
<1> QED
  BY <1>6, <1>7, <1>11, <1>12, <1>13, <1>14, <1>15, <1>16, <1>17, <1>18, <1>19, <1>20
  DEF Reconcile

LEMMA OtherGhostSteps ==
  ASSUME Basics, GhostInv, Next,
         \/ \E k \in Slot : Resolution(k) \/ \E n \in Name : Button(k, n)
         \/ \E n \in Name : World(n)
         \/ \E f \in Folder : Choose(f)
         \/ Chosen \/ Reload
  PROVE  GhostInv'
<1>1. /\ TypeOK /\ PlanInv /\ ResolveInv /\ ServerInv /\ CursorInv /\ ServerTypeOK /\ ServerTypeOK'
      /\ ServerInv' /\ Advances /\ clock \in Nat /\ clock' \in Nat
  BY StepServed DEF Basics, TypeOK
<1>2. /\ \A k \in Slot : resolve[k].state.cursor \in Nat /\ resolve[k].state.cursor <= clock
      /\ \A k \in Slot : resolve[k].state.entries \in [Name -> Entry] /\ resolve[k].name \in Name
      /\ state.cursor \in Nat /\ state.cursor <= clock
      /\ saved.state.cursor \in Nat /\ saved.state.cursor <= clock
      /\ run.state.cursor \in Nat /\ run.state.cursor <= clock
      /\ run.newVersion \in Nat /\ run.newVersion <= clock
  BY <1>1 DEF TypeOK, Run, Resolve, SyncState, CursorInv
<1>3. /\ \A k \in Slot : Unhaunted(gone', resolve[k])
      /\ GhostFree(gone', state) /\ GhostFree(gone', saved.state)
  <2>1. \A k \in Slot : GhostFree(gone, resolve[k].state)
    BY DEF GhostInv, Unhaunted
  <2>2. \A k \in Slot : GhostFree(gone', resolve[k].state)
    BY <1>1, <1>2, <2>1, StaysFree
  <2>3. GhostFree(gone', state) /\ GhostFree(gone', saved.state)
    BY <1>1, <1>2, StaysFree DEF GhostInv
  <2> QED
    BY <1>1, <1>2, <2>2, <2>3, StaysFree DEF GhostInv, Unhaunted
<1>4. \A g \in gone' : g.name \in Name /\ g.id # 0 /\ g.id \in Nat
                       /\ g.version \in Nat /\ (g \notin gone => g.version > clock)
  BY <1>1 DEF ServerTypeOK, ServerInv, Tombstone, Advances
<1>5. GhostFree(gone', emptySyncState) /\ Unhaunted(gone', NoResolve)
  BY <1>4, NothingHaunted
<1>6. ASSUME UNCHANGED run
      PROVE  /\ run'.pc \in {"idle", "list", "diff"} => GhostFree(gone', run'.state)
             /\ RunGhosts'
  <2>1. \A g \in gone' : g.version <= run.newVersion => g \in gone
    BY <1>1, <1>2, <1>4
  <2>2. run.pc \in {"idle", "list", "diff"} => GhostFree(gone', run.state)
    BY <1>1, <1>2, StaysFree DEF GhostInv
  <2> QED
    BY <1>6, <2>1, <2>2 DEF GhostInv, RunGhosts, Passed, InActions, NextAction, entries
<1>7. ASSUME run' = NoRun
      PROVE  /\ run'.pc \in {"idle", "list", "diff"} => GhostFree(gone', run'.state)
             /\ RunGhosts'
  BY <1>5, <1>7, EndFields DEF RunGhosts, Acted
<1>8. ASSUME GhostFree(gone', state'), GhostFree(gone', saved'.state),
             UNCHANGED run \/ run' = NoRun, \A k \in Slot : Unhaunted(gone', resolve'[k])
      PROVE  GhostInv'
  BY <1>6, <1>7, <1>8 DEF GhostInv
<1>9. ASSUME NEW k \in Slot, Resolution(k) PROVE GhostInv'
  <2> DEFINE q == resolve[k]
             q2 == resolve'[k]
             n == q.name
  <2>1. UNCHANGED run /\ q.id \in Nat
    BY <1>1, <1>9, ResolutionTypes, Typed
  <2>2. ASSUME NEW pc, NEW created, NEW content, Advanced(k, pc, created, content),
               UNCHANGED <<state, saved>>,
               pc \in {"localDone", "copyFetch", "copyAdopted"}
                 => ~Passed(gone', q.state.cursor, created),
               pc \in {"adopted", "copyAdopted"} => ~Passed(gone', q.state.cursor, q.id)
        PROVE  GhostInv'
    <3>1. /\ q2.pc = pc /\ q2.created = created /\ q2.id = q.id /\ q2.state = q.state
          /\ \A j \in Slot \ {k} : resolve'[j] = resolve[j]
      BY <2>2 DEF Advanced, Others
    <3>2. Unhaunted(gone', q2)
      BY <1>3, <2>2, <3>1 DEF Unhaunted
    <3> QED
      BY <1>3, <1>8, <2>1, <2>2, <3>1, <3>2
  <2>3. ~Passed(gone', q.state.cursor, clock + 1)
    <3>1. \A g \in gone : g.id <= clock
      BY <1>1 DEF ServerInv
    <3> QED
      BY <1>1, <1>2, <1>4, <3>1 DEF Passed
  <2>4. CASE KeepLocalDelete(k)
    <3>1. Advanced(k, "localUpload", q.created, q.content) /\ UNCHANGED <<state, saved>>
      BY <1>1, <2>4, ResolutionFields DEF KeepLocalDelete, memory
    <3> QED
      BY <2>2, <3>1
  <2>5. CASE KeepLocalUpload(k)
    <3>1. Advanced(k, "localDone", clock + 1, File(k)) /\ UNCHANGED <<state, saved>>
      BY <1>1, <2>5, ResolutionFields DEF KeepLocalUpload, memory
    <3> QED
      BY <2>2, <2>3, <3>1
  <2>6. CASE KeepBothUpload(k)
    <3>1. Advanced(k, "copyFetch", clock + 1, q.content) /\ UNCHANGED <<state, saved>>
      BY <1>1, <2>6, ResolutionFields DEF KeepBothUpload, memory
    <3> QED
      BY <2>2, <2>3, <3>1
  <2>7. CASE AdoptRemote(k)
    <3> DEFINE pc == IF q.pc = "fetch" THEN "adopted" ELSE "copyAdopted"
    <3>1. Advanced(k, pc, q.created, q.content)
      BY <1>1, <2>7, ResolutionFields
    <3>2. UNCHANGED <<state, saved, gone>> /\ q.pc \in {"fetch", "copyFetch"} /\ Exists(q.id)
      BY <2>7 DEF AdoptRemote, memory, server
    <3>3. ~Passed(gone', q.state.cursor, q.id)
      BY <1>1, <3>2, RowFound DEF Passed
    <3>4. pc \in {"localDone", "copyFetch", "copyAdopted"}
            => ~Passed(gone', q.state.cursor, q.created)
      BY <1>3, <3>2 DEF Unhaunted
    <3> QED
      BY <2>2, <3>1, <3>2, <3>3, <3>4
  <2>8. ASSUME NEW new, Settled(k, new),
               \A g \in gone' : g.version <= q.state.cursor => new[g.name].id # g.id
        PROVE  GhostInv'
    <3>1. /\ state'.cursor = q.state.cursor /\ state'.entries = new /\ saved'.state = state'
          /\ q2.pc = "settled" /\ q2.state = q.state
          /\ \A j \in Slot \ {k} : resolve'[j] = resolve[j]
      BY <2>8 DEF Settled, Advanced, Others
    <3>2. GhostFree(gone', state') /\ GhostFree(gone', saved'.state)
      BY <2>8, <3>1 DEF GhostFree
    <3>3. Unhaunted(gone', q2)
      BY <1>3, <3>1 DEF Unhaunted
    <3> QED
      BY <1>3, <1>8, <2>1, <3>1, <3>2, <3>3
  <2>9. \A g \in gone' : g.version <= q.state.cursor => q.state.entries[g.name].id # g.id
    BY <1>3 DEF Unhaunted, GhostFree
  <2>10. OwnEntry(k).id = q.id /\ CopyEntry(k).id = q.created
    BY DEF OwnEntry, CopyEntry
  <2>11. CASE KeepLocalDone(k)
    <3> DEFINE new == Alone(k, CopyEntry(k))
    <3>1. Settled(k, new) /\ q.pc = "localDone"
      BY <1>1, <2>11, ResolutionFields DEF KeepLocalDone
    <3>2. ~Passed(gone', q.state.cursor, q.created)
      BY <1>3, <3>1 DEF Unhaunted
    <3>3. \A g \in gone' : g.version <= q.state.cursor => new[g.name].id # g.id
      BY <1>2, <1>4, <2>9, <2>10, <3>2 DEF Passed, Alone
    <3> HIDE DEF new
    <3> QED
      BY <2>8, <3>1, <3>3
  <2>12. CASE Adopted(k) /\ q.pc = "adopted"
    <3> DEFINE new == Alone(k, OwnEntry(k))
    <3>1. Settled(k, new)
      BY <1>1, <2>12, ResolutionFields
    <3>2. ~Passed(gone', q.state.cursor, q.id)
      BY <1>3, <2>12 DEF Unhaunted
    <3>3. \A g \in gone' : g.version <= q.state.cursor => new[g.name].id # g.id
      BY <1>2, <1>4, <2>9, <2>10, <3>2 DEF Passed, Alone
    <3> HIDE DEF new
    <3> QED
      BY <2>8, <3>1, <3>3
  <2>13. CASE Adopted(k) /\ q.pc = "copyAdopted"
    <3> DEFINE new == Both(k)
    <3>1. Settled(k, new) /\ CopyName[n] \in Name \ {n}
      BY <1>1, <2>13, ResolutionFields
    <3>2. ~Passed(gone', q.state.cursor, q.id) /\ ~Passed(gone', q.state.cursor, q.created)
      BY <1>3, <2>13 DEF Unhaunted
    <3>3. \A g \in gone' : g.version <= q.state.cursor => new[g.name].id # g.id
      BY <1>2, <1>4, <2>9, <2>10, <3>1, <3>2 DEF Passed, Both
    <3> HIDE DEF new
    <3> QED
      BY <2>8, <3>1, <3>3
  <2>14. CASE ResolveFails(k) \/ Dismiss(k)
    <3>1. Ended(k) /\ UNCHANGED <<state, saved>>
      BY <1>1, <2>14, ResolutionFields DEF ResolveFails, Dismiss, memory
    <3> QED
      BY <1>3, <1>5, <1>8, <2>1, <3>1 DEF Ended, Others
  <2> QED
    BY <1>9, <2>4, <2>5, <2>6, <2>7, <2>11, <2>12, <2>13, <2>14 DEF Resolution, Adopted
<1>10. ASSUME NEW n \in Name, World(n) PROVE GhostInv'
  <2>1. UNCHANGED <<state, saved, resolve, run>>
    BY <1>10 DEF World, UserRemove, UserWrite, DevicePut, DeviceDrop, memory, jobs
  <2> QED
    BY <1>3, <1>8, <2>1
<1>button. ASSUME NEW k \in Slot, NEW n \in Name, Button(k, n) PROVE GhostInv'
  <2>1. UNCHANGED <<state, saved, run>>
    BY <1>1, <1>button, ButtonFields DEF memory
  <2>2. CASE UNCHANGED resolve
    BY <1>3, <1>8, <2>1, <2>2
  <2>3. ASSUME NEW pc \in {"localDelete", "fetch", "copyUpload"},
               NEW content \in Content \cup {NoFile}, Click(k, n, pc, content)
        PROVE  GhostInv'
    <3>1. /\ \A j \in Slot \ {k} : resolve'[j] = resolve[j]
          /\ resolve'[k] = [pc |-> pc, name |-> n, folder |-> handle, id |-> conflicts[n],
                            created |-> 0, content |-> content, state |-> state]
      BY <1>1, <2>3, ClickFields DEF Others
    <3>2. resolve'[k].state = state /\ resolve'[k].pc = pc
      BY <3>1
    <3>3. Unhaunted(gone', resolve'[k])
      BY <1>3, <3>2 DEF Unhaunted
    <3> QED
      BY <1>3, <1>8, <2>1, <3>1, <3>3
  <2> QED
    BY <1>1, <1>button, <2>2, <2>3, ButtonFields
<1>11. ASSUME NEW f \in Folder, Choose(f) PROVE GhostInv'
  <2>1. saved'.state = saved.state /\ UNCHANGED <<state, resolve, run>>
    BY <1>1, <1>11 DEF Choose, memory, TypeOK
  <2> QED
    BY <1>3, <1>8, <2>1
<1>12. CASE Chosen
  <2>1. saved'.state \in {saved.state, emptySyncState} /\ state' = saved'.state
        /\ UNCHANGED <<resolve, run>>
    BY <1>1, <1>12 DEF Chosen, TypeOK
  <2> QED
    BY <1>3, <1>5, <1>8, <2>1
<1>13. CASE Reload
  <2>1. state' \in {saved.state, emptySyncState} /\ saved' = saved /\ run' = NoRun
        /\ resolve' = [k \in Slot |-> NoResolve]
    BY <1>1, <1>13 DEF Reload
  <2> QED
    BY <1>3, <1>5, <1>8, <2>1
<1> QED
  BY <1>9, <1>10, <1>button, <1>11, <1>12, <1>13

\* NoGhostEntries: whichever handler wrote its captured state last, neither the page
\* nor the store has a cursor together with an entry, under the row's name, for a row
\* whose deletion that cursor has passed; not with runs and resolutions at the same
\* time either, and not with folders chosen meanwhile.
THEOREM GhostsNever == Spec => []NoGhostEntries
<1>1. Init => Basics /\ GhostInv
  <2> SUFFICES ASSUME Init PROVE GhostInv
    BY BasicsInit
  <2>1. gone = {} /\ run = NoRun /\ NoRun.pc = "idle"
    BY DEF Init, ServerInit, NoRun
  <2> QED
    BY <2>1 DEF GhostInv, GhostFree, Unhaunted, Passed, RunGhosts, Acted
<1>2. Basics /\ GhostInv /\ [Next]_vars => Basics' /\ GhostInv'
  <2> SUFFICES ASSUME Basics, GhostInv, [Next]_vars PROVE GhostInv'
    BY BasicsNext
  <2>1. CASE UNCHANGED vars
    BY <2>1 DEF vars, GhostInv, RunGhosts, InActions, NextAction, entries
  <2> QED
    BY <2>1, RunGhostSteps, OtherGhostSteps, NextSteps
<1>3. GhostInv => NoGhostEntries
  BY DEF GhostInv, GhostFree, NoGhostEntries, NoGhosts
<1> QED
  BY <1>1, <1>2, <1>3, PTL DEF Spec

-----------------------------------------------------------------------------
(* Conflicts wait for the user *)

\* A conflict that the page shows is one that a run under way knows of.
ConflictInv == run.pc # "idle" => \A n \in Name : conflicts[n] # 0 => run.conflicts[n] # 0

LEMMA ConflictSteps == Basics /\ ConflictInv /\ Next => ConflictInv'
<1> SUFFICES ASSUME Basics, ConflictInv, Next PROVE ConflictInv'
  OBVIOUS
<1>1. /\ TypeOK /\ PlanInv /\ ResolveInv /\ ServerInv /\ CursorInv
      /\ conflicts \in [Name -> Nat] /\ run.conflicts \in [Name -> Nat]
  BY Typed DEF Basics
<1>2. CASE run' = NoRun
  BY <1>2, EndFields DEF ConflictInv
<1>3. CASE UNCHANGED run /\ \A n \in Name : conflicts'[n] \in {0, conflicts[n]}
  BY <1>3 DEF ConflictInv
<1>4. CASE syncNow
  <2>1. run'.conflicts = conflicts /\ UNCHANGED conflicts
    BY <1>1, <1>4, BeginFields DEF syncNow, memory
  <2> QED
    BY <2>1 DEF ConflictInv
<1>5. ASSUME run.pc # "idle", UNCHANGED conflicts,
             \A n \in Name : run.conflicts[n] # 0 => run'.conflicts[n] # 0
      PROVE  ConflictInv'
  BY <1>5 DEF ConflictInv
<1>6. CASE List \/ Diff
  <2>1. /\ run'.conflicts = run.conflicts /\ UNCHANGED conflicts /\ run.pc # "idle"
    BY <1>1, <1>6, BeginFields DEF List, Diff, Step, Prepares, memory
  <2> QED
    BY <1>5, <2>1
<1>7. CASE RecordConflict
  <2>1. PICK n \in Name, id \in Nat \ {0} : run'.conflicts = [run.conflicts EXCEPT ![n] = id]
    BY <1>1, <1>7, ActionFields DEF Becomes
  <2>2. UNCHANGED conflicts /\ run.pc = "act"
    BY <1>7 DEF RecordConflict, Acting, Step, memory
  <2>3. \A m \in Name : run.conflicts[m] # 0 => run'.conflicts[m] # 0
    BY <1>1, <2>1
  <2> QED
    BY <1>5, <2>2, <2>3
<1>8. CASE Download \/ Downloaded \/ PassOver \/ RemoveLocal \/ EndActions
  <2>1. run'.conflicts = run.conflicts
    BY <1>1, <1>8, ActionFields DEF Becomes
  <2>2. UNCHANGED conflicts /\ run.pc \in {"act", "written"}
    BY <1>8 DEF Download, Downloaded, PassOver, RemoveLocal, EndActions, Acting, Step, memory
  <2> QED
    BY <1>5, <2>1, <2>2
<1>9. CASE UploadNext \/ Replace \/ Upload \/ EndUploads \/ RemoveRemote
  <2>1. run'.conflicts = run.conflicts
    BY <1>1, <1>9, UploadFields DEF Becomes
  <2>2. UNCHANGED conflicts /\ run.pc \in {"uploads", "replace", "upload", "removals"}
    BY <1>9 DEF UploadNext, Replace, Upload, EndUploads, RemoveRemote, Step, memory
  <2> QED
    BY <1>5, <2>1, <2>2
<1>10. CASE UploadUnanswered \/ RunThrows \/ Finish
  BY <1>2, <1>10 DEF UploadUnanswered, RunThrows, Finish
<1>11. ASSUME NEW k \in Slot, Resolution(k) PROVE ConflictInv'
  <2>1. UNCHANGED run
    BY <1>1, <1>11, ResolutionTypes
  <2>2. UNCHANGED conflicts \/ \E n : conflicts' = [conflicts EXCEPT ![n] = 0]
    BY <1>11 DEF Resolution, KeepLocalDelete, KeepLocalUpload, KeepLocalDone, AdoptRemote,
       Adopted, KeepBothUpload, Dismiss, ResolveFails, memory
  <2>3. \A m \in Name : conflicts'[m] \in {0, conflicts[m]}
    BY <1>1, <2>2
  <2> QED
    BY <1>3, <2>1, <2>3
<1>12. ASSUME NEW n \in Name, World(n) PROVE ConflictInv'
  <2>1. UNCHANGED run
    BY <1>1, <1>12, WorldTypes
  <2>2. UNCHANGED conflicts
    BY <1>12 DEF World, UserRemove, UserWrite, DevicePut, DeviceDrop, memory
  <2> QED
    BY <1>3, <2>1, <2>2
<1>button. ASSUME NEW k \in Slot, NEW n \in Name, Button(k, n) PROVE ConflictInv'
  <2>1. UNCHANGED <<conflicts, run>>
    BY <1>1, <1>button, ButtonFields DEF memory
  <2> QED
    BY <1>3, <2>1
<1>13. CASE (\E f \in Folder : Choose(f)) \/ Chosen
  <2>1. UNCHANGED run /\ (UNCHANGED conflicts \/ conflicts' = NoConflict)
    BY <1>13 DEF Choose, Chosen, memory
  <2> QED
    BY <1>3, <2>1 DEF NoConflict
<1>14. CASE Reload
  BY <1>2, <1>14 DEF Reload
<1> QED
  BY <1>4, <1>6, <1>7, <1>8, <1>9, <1>10, <1>11, <1>12, <1>button, <1>13, <1>14, NextSteps
  DEF Reconcile

\* ConflictsWait: while the page shows a conflict no run uploads, replaces or deletes
\* the file on the server, also one that began before the conflict was shown, and
\* whatever is resolved or chosen meanwhile.
THEOREM ConflictsAreLeftAlone == Spec => ConflictsWait
<1>1. Init => ConflictInv
  BY DEF Init, ConflictInv, NoRun
<1>2. Basics /\ ConflictInv /\ [Next]_vars => ConflictInv'
  BY ConflictSteps DEF vars, ConflictInv
<1>3. Basics /\ ConflictInv =>
        /\ run.pc \in {"replace", "upload"} => conflicts[run.name] = 0
        /\ \A n \in Handled : conflicts[n] = 0
  <2> SUFFICES ASSUME Basics, ConflictInv
               PROVE  /\ run.pc \in {"replace", "upload"} => conflicts[run.name] = 0
                      /\ \A n \in Handled : conflicts[n] = 0
    OBVIOUS
  <2>1. /\ run.pc \in Sending => run.name \in Name \ Conflicted
        /\ Handled \subseteq Name \ Conflicted /\ (Handled # {} => run.pc = "removals")
    BY DEF Basics, PlanInv, ToSend, Missing, Handled
  <2>2. \A n \in Name \ Conflicted : run.conflicts[n] = 0
    BY DEF Conflicted
  <2> QED
    BY <2>1, <2>2 DEF ConflictInv, Sending
<1>4. Basics /\ ConflictInv /\ [Next]_vars =>
        [rows' # rows /\ run' # run =>
           /\ run.pc \in {"replace", "upload"} => conflicts[run.name] = 0
           /\ \A n \in Handled : conflicts[n] = 0]_vars
  BY <1>3
<1> QED
  BY <1>1, <1>2, <1>4, BasicsInit, BasicsNext, PTL DEF Spec, ConflictsWait

=============================================================================
