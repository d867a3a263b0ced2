------------------------------- MODULE SyncDiff -------------------------------
(***************************************************************************)
(* The server's half of a sync: SyncService.Diff over one user's rows.     *)
(* A row is a live file; files are never updated in place, so the version  *)
(* a row got when it was created also identifies it.  A tombstone records  *)
(* a deleted row; its content is kept for the properties only.  Contents   *)
(* stand for their hashes, and every row has one.                          *)
(***************************************************************************)
EXTENDS Integers, FiniteSetsExt

CONSTANTS
  Name,     \* file names
  Content,  \* file contents
  NoFile    \* what a folder holds under a name without a file

ASSUME SyncDiffAssumption == Name # {} /\ NoFile \notin Content

Row == [name: Name, content: Content, version: Nat]

Tombstone == [name: Name, content: Content, id: Nat, version: Nat]

\* A local manifest: what a scan found under each name.
Manifest == [Name -> Content \cup {NoFile}]

Live(rows, n) == \E r \in rows : r.name = n

\* The id of the row with a name, 0 when there is none.
IdOf(rows, n) == IF Live(rows, n) THEN (CHOOSE r \in rows : r.name = n).version ELSE 0

-----------------------------------------------------------------------------

Changed(rows, since) == {r \in rows : r.version > since}

Deleted(gone, since) == {g \in gone : g.version > since}

\* A change whose content the client already has needs no action; one under a
\* name the manifest lists with other content is a conflict.
ChangeActions(rows, since, manifest) ==
  {[name |-> r.name, version |-> r.version,
    action |-> IF manifest[r.name] = NoFile THEN "download" ELSE "conflict"] :
     r \in {x \in Changed(rows, since) : manifest[x.name] # x.content}}

\* Mutant of DeleteActions: off by one.
DeleteActionsLate(gone, since) == {g.name : g \in Deleted(gone, since + 1)}

DeleteActions(gone, since) == {g.name : g \in Deleted(gone, since)}

\* Mutant of NewVersion: without the client's own.
NewVersionOfReport(rows, gone, since) ==
  Max({-1} \cup {r.version : r \in Changed(rows, since)}
           \cup {g.version : g \in Deleted(gone, since)})

\* The highest version among what is reported, or the client's own.
NewVersion(rows, gone, since) ==
  Max({since} \cup {r.version : r \in Changed(rows, since)}
              \cup {g.version : g \in Deleted(gone, since)})
=============================================================================
