----------------------------- MODULE SyncServer -----------------------------
(***************************************************************************)
(* One user's files on the server, as a syncing client sees them: what its *)
(* calls do, each in one transaction.                                      *)
(***************************************************************************)
EXTENDS SyncDiff

CONSTANT Dedup  \* the name the server gives an upload whose name is taken

ASSUME SyncServerAssumption == Dedup \in [Name -> Name]

VARIABLES
  rows, gone,  \* the server's files and file_deletions
  clock        \* files_version_seq

server == <<rows, gone, clock>>

ServerInit == rows = {} /\ gone = {} /\ clock = 0

ServerTypeOK == rows \subseteq Row /\ gone \subseteq Tombstone /\ clock \in Nat

ServerName(n) == IF Live(rows, n) THEN Dedup[n] ELSE n

\* Create draws the row's version; an upload under a taken name is renamed
\* (once: the next candidate is beyond the model's names).
ServerCreate(n, c) ==
  /\ ~Live(rows, ServerName(n))
  /\ rows' = rows \cup {[name |-> ServerName(n), content |-> c, version |-> clock + 1]}
  /\ clock' = clock + 1
  /\ UNCHANGED gone

\* Delete leaves a tombstone; an id that is gone already is a 404.
ServerDelete(id) ==
  \/ \E r \in rows :
       /\ r.version = id
       /\ rows' = rows \ {r}
       /\ gone' = gone \cup {[name |-> r.name, content |-> r.content, id |-> id,
                              version |-> clock + 1]}
       /\ clock' = clock + 1
  \/ (\A r \in rows : r.version # id) /\ UNCHANGED server

Exists(id) == \E r \in rows : r.version = id

RowOf(id) == CHOOSE r \in rows : r.version = id

\* What a row held, also one that has been deleted since it was fetched.
ContentOf(id) == (CHOOSE r \in rows \cup {[version |-> g.id, content |-> g.content] : g \in gone} :
                    r.version = id).content

\* Content that was on the server at some time.
Stored(c) == \E r \in rows \cup gone : r.content = c

Fresh(n) == \A r \in rows \cup gone : r.name # n
=============================================================================
