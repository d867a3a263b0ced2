--------------------------- MODULE SyncServerProofs ---------------------------
(* What the sync clients' proofs need to know of the server: the report of a   *)
(* diff, and how rows and tombstones come about.                               *)
EXTENDS SyncServer, TLAPS, FiniteSetTheorems, WellFoundedInduction

\* Of any versions there is a least: a report has a first action.
LEMMA LeastVersion ==
  ASSUME NEW S \in SUBSET Nat, S # {}
  PROVE  \E x \in S : \A y \in S : x <= y
<1> DEFINE T == {0..y : y \in S}
<1>1. T \subseteq FiniteSubsetsOf(Nat) /\ T # {}
  <2>1. ASSUME NEW y \in S PROVE 0..y \in SUBSET Nat /\ IsFiniteSet(0..y)
    BY FS_Interval
  <2> QED
    BY <2>1 DEF FiniteSubsetsOf
<1> HIDE DEF T
<1>2. PICK t \in T : \A u \in T : <<u, t>> \notin StrictSubsetOrdering(Nat)
  BY <1>1, FS_StrictSubsetOrderingWellFounded, WFMin
<1>3. PICK x \in S : t = 0..x
  BY DEF T
<1>4. ASSUME NEW y \in S, y < x PROVE FALSE
  <2>1. 0..y \in SUBSET Nat /\ 0..x \in SUBSET Nat /\ 0..y \subseteq 0..x /\ x \notin 0..y
        /\ x \in 0..x
    BY <1>4
  <2>2. 0..y # 0..x
    BY <2>1
  <2>3. <<0..y, 0..x>> \in StrictSubsetOrdering(Nat)
    BY <2>1, <2>2 DEF StrictSubsetOrdering
  <2> QED
    BY <1>2, <1>3, <2>3 DEF T
<1> QED
  BY <1>4

\* Of bounded versions there is a greatest.
LEMMA GreatestVersion ==
  ASSUME NEW S \in SUBSET Nat, S # {}, NEW bound \in Nat, \A y \in S : y <= bound
  PROVE  Max(S) \in S /\ \A y \in S : y <= Max(S)
<1> DEFINE T == {bound - y : y \in S}
<1>1. T \in SUBSET Nat /\ T # {}
  <2>1. ASSUME NEW y \in S PROVE bound - y \in Nat
    OBVIOUS
  <2> QED
    BY <2>1
<1> HIDE DEF T
<1>2. PICK t \in T : \A u \in T : t <= u
  BY <1>1, LeastVersion
<1>3. PICK x \in S : t = bound - x
  BY DEF T
<1>4. ASSUME NEW y \in S PROVE x >= y
  <2>1. t <= bound - y
    BY <1>2 DEF T
  <2> QED
    BY <1>3, <2>1
<1> QED
  BY <1>4 DEF Max

-----------------------------------------------------------------------------
(* Rows and tombstones *)

\* Versions are drawn once: rows have theirs for an id, and tombstones are of
\* rows that are gone, with a version drawn later than the row's.
ServerInv ==
  /\ \A r \in rows : r.version \in 1..clock
  /\ \A g \in gone : g.id \in 1..clock /\ g.version \in 1..clock /\ g.id < g.version
  /\ \A r, s \in rows : r.version = s.version => r = s
  /\ \A r \in rows, g \in gone : r.version # g.id

\* A call of some client, or none.
Served ==
  \/ UNCHANGED server
  \/ \E n \in Name, c \in Content : ServerCreate(n, c)
  \/ \E id \in Nat : ServerDelete(id)

\* What is new has a new version, and what is missing left a tombstone.
Advances ==
  /\ clock <= clock' /\ gone \subseteq gone'
  /\ \A r \in rows' \ rows : r.version > clock
  /\ \A g \in gone' \ gone : g.version > clock
  /\ \A r \in rows \ rows' :
       \E g \in gone' : g.name = r.name /\ g.id = r.version /\ g.version > clock

LEMMA ServerSteps ==
  ASSUME ServerTypeOK, ServerInv, Served
  PROVE  ServerTypeOK' /\ ServerInv' /\ Advances
<1>1. CASE UNCHANGED server
  BY <1>1 DEF server, ServerTypeOK, ServerInv, Advances
<1>2. ASSUME NEW n \in Name, NEW c \in Content, ServerCreate(n, c)
      PROVE  ServerTypeOK' /\ ServerInv' /\ Advances
  <2> DEFINE new == [name |-> ServerName(n), content |-> c, version |-> clock + 1]
  <2>1. ServerName(n) \in Name
    BY SyncServerAssumption DEF ServerName
  <2>2. /\ rows' = rows \cup {new} /\ clock' = clock + 1 /\ gone' = gone
        /\ new.version = clock + 1 /\ new \in Row /\ clock \in Nat
    BY <1>2, <2>1 DEF ServerCreate, Row, ServerTypeOK
  <2> HIDE DEF new
  <2>3. ServerTypeOK'
    BY <2>2 DEF ServerTypeOK
  <2>4. ServerInv'
    BY <2>2 DEF ServerInv, ServerTypeOK, Row, Tombstone
  <2> QED
    BY <2>2, <2>3, <2>4 DEF Advances
<1>3. ASSUME NEW id \in Nat, NEW r \in rows, r.version = id, rows' = rows \ {r},
             gone' = gone \cup {[name |-> r.name, content |-> r.content, id |-> id,
                                 version |-> clock + 1]},
             clock' = clock + 1
      PROVE  ServerTypeOK' /\ ServerInv' /\ Advances
  <2> DEFINE g == [name |-> r.name, content |-> r.content, id |-> id, version |-> clock + 1]
  <2>1. /\ gone' = gone \cup {g} /\ g \in Tombstone /\ clock \in Nat
        /\ g.name = r.name /\ g.id = r.version /\ g.version = clock + 1
    BY <1>3 DEF ServerTypeOK, Row, Tombstone
  <2> HIDE DEF g
  <2>2. ServerTypeOK'
    BY <1>3, <2>1 DEF ServerTypeOK
  <2>3. ServerInv'
    BY <1>3, <2>1 DEF ServerInv, ServerTypeOK, Row, Tombstone
  <2>4. Advances
    BY <1>3, <2>1 DEF Advances
  <2> QED
    BY <2>2, <2>3, <2>4
<1> QED
  BY <1>1, <1>2, <1>3 DEF Served, ServerDelete

-----------------------------------------------------------------------------
(* The report *)

\* What a report says is within its version, and its version within the
\* server's.
LEMMA Report ==
  ASSUME ServerTypeOK, ServerInv, NEW since \in Nat, since <= clock,
         NEW manifest \in Manifest
  PROVE  /\ NewVersion(rows, gone, since) \in Nat
         /\ since <= NewVersion(rows, gone, since) /\ NewVersion(rows, gone, since) <= clock
         /\ ChangeActions(rows, since, manifest) \subseteq
              [name: Name, version: Nat, action: {"download", "conflict"}]
         /\ DeleteActions(gone, since) \subseteq Name
<1> DEFINE S == {since} \cup {r.version : r \in Changed(rows, since)}
                        \cup {g.version : g \in Deleted(gone, since)}
<1>1. S \in SUBSET Nat /\ S # {} /\ (\A y \in S : y <= clock) /\ clock \in Nat
  BY DEF ServerTypeOK, ServerInv, Changed, Deleted, Row, Tombstone
<1>2. since \in S /\ NewVersion(rows, gone, since) = Max(S)
  BY DEF NewVersion
<1> HIDE DEF S
<1>3. Max(S) \in S /\ \A y \in S : y <= Max(S)
  BY <1>1, GreatestVersion
<1>4. ChangeActions(rows, since, manifest) \subseteq
        [name: Name, version: Nat, action: {"download", "conflict"}]
  BY DEF ChangeActions, Changed, ServerTypeOK, Row
<1>5. DeleteActions(gone, since) \subseteq Name
  BY DEF DeleteActions, Deleted, ServerTypeOK, Tombstone
<1> QED
  BY <1>1, <1>2, <1>3, <1>4, <1>5

\* The actions of a report have a first one.
LEMMA FirstAction ==
  ASSUME NEW changed, changed # {},
         changed \subseteq [name: Name, version: Nat, action: {"download", "conflict"}]
  PROVE  (CHOOSE a \in changed : \A b \in changed : a.version <= b.version) \in changed
<1> DEFINE S == {a.version : a \in changed}
<1>1. S \in SUBSET Nat /\ S # {}
  OBVIOUS
<1> HIDE DEF S
<1>2. PICK x \in S : \A y \in S : x <= y
  BY <1>1, LeastVersion
<1>3. PICK a \in changed : x = a.version
  BY DEF S
<1>4. \A b \in changed : a.version <= b.version
  BY <1>2, <1>3 DEF S
<1> QED
  BY <1>4

\* Names without a row have no id, and the ids of others are theirs.
LEMMA Ids ==
  ASSUME ServerTypeOK, ServerInv, NEW n \in Name
  PROVE  /\ IdOf(rows, n) \in 0..clock
         /\ IdOf(rows, n) = 0 <=> ~Live(rows, n)
         /\ \A r \in rows : r.version = IdOf(rows, n) => r.name = n
<1>1. CASE Live(rows, n)
  <2> DEFINE r == CHOOSE r \in rows : r.name = n
  <2>1. r \in rows /\ r.name = n
    BY <1>1 DEF Live
  <2>2. IdOf(rows, n) = r.version
    BY <1>1 DEF IdOf
  <2> HIDE DEF r
  <2> QED
    BY <1>1, <2>1, <2>2 DEF ServerTypeOK, ServerInv, Row
<1>2. CASE ~Live(rows, n)
  BY <1>2 DEF IdOf, ServerTypeOK, ServerInv, Row
<1> QED
  BY <1>1, <1>2

LEMMA RowFound ==
  ASSUME ServerTypeOK, ServerInv, NEW id, Exists(id)
  PROVE  /\ RowOf(id) \in rows /\ RowOf(id).version = id
         /\ RowOf(id).content \in Content /\ RowOf(id).content # NoFile
         /\ id \in 1..clock
         /\ \A g \in gone : g.id # id
<1>1. RowOf(id) \in rows /\ RowOf(id).version = id
  BY DEF Exists, RowOf
<1> QED
  BY <1>1, SyncDiffAssumption DEF ServerTypeOK, ServerInv, Row

\* An id of a row that is, or was, on the server.
Kept(table, graves, id) ==
  (\E r \in table : r.version = id) \/ (\E g \in graves : g.id = id)

LEMMA FetchedContent ==
  ASSUME ServerTypeOK, NEW id, Kept(rows, gone, id)
  PROVE  ContentOf(id) \in Content /\ ContentOf(id) # NoFile
<1> DEFINE once == {[version |-> g.id, content |-> g.content] : g \in gone}
<1>1. \A r \in rows \cup once : r.content \in Content
  BY DEF ServerTypeOK, Row, Tombstone
<1>2. \E r \in rows \cup once : r.version = id
  <2>1. ASSUME NEW g \in gone, g.id = id PROVE \E r \in once : r.version = id
    <3>1. [version |-> g.id, content |-> g.content] \in once
      OBVIOUS
    <3> QED
      BY <2>1, <3>1
  <2> QED
    BY <2>1 DEF Kept
<1>3. ContentOf(id) = (CHOOSE r \in rows \cup once : r.version = id).content
  BY DEF ContentOf
<1> HIDE DEF once
<1> QED
  BY <1>1, <1>2, <1>3, SyncDiffAssumption

LEMMA KeptStays ==
  ASSUME Advances, NEW id, Kept(rows, gone, id)
  PROVE  Kept(rows', gone', id)
BY DEF Advances, Kept

=============================================================================
