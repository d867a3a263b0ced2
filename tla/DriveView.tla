------------------------------ MODULE DriveView ------------------------------
(***************************************************************************)
(* The file table of the web client and what the user does with it:        *)
(* sorting and filtering, scrolling, deleting, and uploading batches of    *)
(* files, by button or by dropping them anywhere, also while a batch runs. *)
(*                                                                         *)
(* The table shows what the query cache holds for the current view, pages  *)
(* read one request at a time; every mutation that succeeds invalidates    *)
(* the cache.  React renders between any two events.                       *)
(***************************************************************************)
EXTENDS Integers, Sequences, FiniteSets

CONSTANTS
  File,       \* files on the user's computer
  Big,        \* files over the single-shot threshold
  Filtered,   \* files with the extension the filter asks for
  View,       \* keys of the table's query: sort order and filter
  Default,    \* the view of a page just opened
  Batch,      \* slots for upload mutations
  ChunkCount, \* chunks of a big file
  PageSize,   \* PAGE_SIZE
  Initially,  \* the files of the account when the page opens, oldest first
  Moves,      \* of {"delete", "upload", "switch", "focus", "netFail", "refuse", "expire"}
  MaxMoves    \* bound: steps of the user and the faults

ASSUME DriveViewAssumption ==
  /\ File # {} /\ Big \subseteq File /\ Filtered \subseteq File
  /\ View \subseteq [desc: BOOLEAN, filter: BOOLEAN] /\ Default \in View
  /\ ChunkCount \in Nat \ {0} /\ PageSize \in Nat \ {0}
  /\ Initially \in Seq(File)
  /\ MaxMoves \in Nat

VARIABLES
  rows,      \* the server's files
  sessions,  \* the server's upload sessions
  clock,     \* ids given to rows and sessions
  view,      \* sorting and extensionFilter
  cache,     \* filesQuery for each view
  deletes,   \* deleteMutation: calls under way, by the id they delete
  batch,     \* uploadMutation: calls under way
  \* For the properties:
  lost,      \* rows deleted by a call the user was told had failed
  orphaned,  \* sessions the client does not know or failed to abort
  behind,    \* whether a view misses the last invalidation: "no", "yes", or
             \* "reading" while a fetch begun since may make up for it
  moves      \* steps counted against MaxMoves

server == <<rows, sessions, clock>>
watch == <<lost, orphaned, behind, moves>>

vars == <<rows, sessions, clock, view, cache, deletes, batch, lost, orphaned, behind, moves>>

Row == [id: Nat, file: File]

Empty == [pages |-> <<>>, more |-> FALSE, error |-> FALSE,
          fetch |-> "idle", got |-> <<>>, answer |-> {}]

NoBatch == [pc |-> "idle", files |-> {}, left |-> {}, file |-> CHOOSE f \in File : TRUE,
            session |-> 0, chunk |-> 0, failures |-> {}, created |-> {}]

\* A fetch of all the pages there are, from the first.
Restarted(c) == [c EXCEPT !.fetch = "all", !.got = <<>>, !.answer = {},
                          !.error = c.error /\ c.pages # <<>>]

Init ==
  /\ rows = {[id |-> i, file |-> Initially[i]] : i \in DOMAIN Initially}
  /\ sessions = {} /\ clock = Len(Initially)
  /\ view = Default
  /\ cache = [v \in View |-> IF v = Default THEN Restarted(Empty) ELSE Empty]
  /\ deletes = [i \in {} |-> ""]
  /\ batch = [b \in Batch |-> NoBatch]
  /\ lost = {} /\ orphaned = {} /\ moves = 0
  /\ behind = [v \in View |-> "no"]

Move(kind) == kind \in Moves /\ moves < MaxMoves /\ moves' = moves + 1

Loaded(v) == cache[v].pages # <<>>

\* The table is on screen.
Visible == Loaded(view) /\ ~cache[view].error

Mutating == deletes # [i \in {} |-> ""] \/ \E b \in Batch : batch[b].pc # "idle"

-----------------------------------------------------------------------------
(* Listing *)

Matching(v) == {r \in rows : v.filter => r.file \in Filtered}

Before(v, r, s) == IF v.desc THEN r.id > s.id ELSE r.id < s.id

\* limit and offset: the k-th page of the view, from 0.
Page(v, k) ==
  {r \in Matching(v) :
     Cardinality({s \in Matching(v) : Before(v, s, r)}) \div PageSize = k}

HasMore(v, k) == Cardinality(Matching(v)) > (k + 1) * PageSize

\* A fetch of all pages begins, or ends before it has read them.
Reread(v) == behind' = [behind EXCEPT ![v] = IF @ = "yes" THEN "reading" ELSE @]

CallOff(v) == behind' = [behind EXCEPT ![v] = IF @ = "reading" THEN "yes" ELSE @]

\* The page asked for follows those the fetch, or the table, already has.
PageServed(v) ==
  LET k == Len(IF cache[v].fetch = "all" THEN cache[v].got ELSE cache[v].pages) IN
  /\ cache[v].fetch # "idle" /\ cache[v].answer = {}
  /\ cache' = [cache EXCEPT ![v].answer = {[page |-> Page(v, k), more |-> HasMore(v, k)]}]
  /\ UNCHANGED <<server, view, deletes, batch, watch>>

\* A fetch of all pages ends with as many as there were, or where no more
\* follow; the pages shown until then stay in place.
PageAnswered(v) ==
  LET c == cache[v] IN
  /\ \E a \in c.answer :
       LET got == Append(IF c.fetch = "all" THEN c.got ELSE c.pages, a.page) IN
       cache' = [cache EXCEPT ![v] =
         IF c.fetch = "all" /\ a.more /\ Len(got) < Len(c.pages)
         THEN [c EXCEPT !.got = got, !.answer = {}]
         ELSE [Empty EXCEPT !.pages = got, !.more = a.more]]
  /\ behind' = IF behind[v] = "reading" /\ cache'[v].fetch = "idle"
               THEN [behind EXCEPT ![v] = "no"] ELSE behind
  /\ UNCHANGED <<server, view, deletes, batch, lost, orphaned, moves>>

\* After its retries; the table gives way to the error, whatever it held.
FetchFails(v) ==
  /\ cache[v].fetch # "idle" /\ Move("netFail")
  /\ cache' = [cache EXCEPT ![v] =
       [@ EXCEPT !.fetch = "idle", !.got = <<>>, !.answer = {}, !.error = TRUE]]
  /\ CallOff(v)
  /\ UNCHANGED <<server, view, deletes, batch, lost, orphaned>>

\* Mutant of NextPage: whether or not more follow.
NextPageAnyway ==
  /\ Visible /\ cache[view].fetch = "idle"
  /\ cache' = [cache EXCEPT ![view] = [@ EXCEPT !.fetch = "next"]]
  /\ UNCHANGED <<server, view, deletes, batch, watch>>

\* Scrolled to the last row.  A refetch under way is called off for it.
NextPage ==
  LET c == cache[view] IN
  /\ Visible /\ c.more /\ c.fetch # "next"
  /\ \E k \in 1..Len(c.pages) : c.pages[k] # {}
  /\ cache' = [cache EXCEPT ![view] = [@ EXCEPT !.fetch = "next", !.got = <<>>, !.answer = {}]]
  /\ CallOff(view)
  /\ UNCHANGED <<server, view, deletes, batch, lost, orphaned, moves>>

\* What has been cached is shown and read again, by the fetch under way if
\* there is one.
SwitchView(v) ==
  /\ v # view /\ Move("switch")
  /\ view' = v
  /\ IF cache[v].fetch = "idle"
     THEN cache' = [cache EXCEPT ![v] = Restarted(@)] /\ Reread(v)
     ELSE UNCHANGED <<cache, behind>>
  /\ UNCHANGED <<server, deletes, batch, lost, orphaned>>

\* The window gets the focus, or the network comes back.
Focus ==
  /\ cache[view].fetch = "idle" /\ Move("focus")
  /\ cache' = [cache EXCEPT ![view] = Restarted(@)]
  /\ Reread(view)
  /\ UNCHANGED <<server, view, deletes, batch, lost, orphaned>>

\* A first load under way is not begun anew.
FirstLoad == cache[view].fetch # "idle" /\ ~Loaded(view)

\* Mutant of Invalidated: a fetch under way will do.
InvalidatedIdly ==
  IF cache[view].fetch = "idle" THEN [cache EXCEPT ![view] = Restarted(@)] ELSE cache

\* invalidateQueries: the view on screen is read from the start, a first load
\* under way excepted; the others are read again when they are switched to.
Invalidated ==
  IF FirstLoad THEN cache ELSE [cache EXCEPT ![view] = Restarted(@)]

invalidateQueries ==
  /\ cache' = Invalidated
  /\ behind' = [v \in View |-> IF v = view /\ ~FirstLoad THEN "reading" ELSE "yes"]

-----------------------------------------------------------------------------
(* Deleting *)

Shown(v) == UNION {cache[v].pages[k] : k \in DOMAIN cache[v].pages}

Without(f, i) == [j \in DOMAIN f \ {i} |-> f[j]]

handleDelete(r) ==
  /\ Visible /\ r \in Shown(view) /\ r.id \notin DOMAIN deletes
  /\ Move("delete")
  /\ deletes' = [i \in DOMAIN deletes \cup {r.id} |-> IF i = r.id THEN "sent" ELSE deletes[i]]
  /\ UNCHANGED <<server, view, cache, batch, lost, orphaned, behind>>

DeleteServed(i) ==
  /\ deletes[i] = "sent"
  /\ deletes' = [deletes EXCEPT ![i] = IF \E r \in rows : r.id = i THEN "done" ELSE "refused"]
  /\ rows' = {r \in rows : r.id # i}
  /\ UNCHANGED <<sessions, clock, view, cache, batch, watch>>

DeleteAnswered(i) ==
  /\ deletes[i] \in {"done", "refused"}
  /\ IF deletes[i] = "done" THEN invalidateQueries ELSE UNCHANGED <<cache, behind>>
  /\ deletes' = Without(deletes, i)
  /\ UNCHANGED <<server, view, batch, lost, orphaned, moves>>

\* The request or its answer is lost.  The table is not read again.
DeleteFails(i) ==
  /\ Move("netFail")
  /\ lost' = IF deletes[i] = "done" THEN lost \cup {i} ELSE lost
  /\ deletes' = Without(deletes, i)
  /\ UNCHANGED <<server, view, cache, batch, orphaned, behind>>

-----------------------------------------------------------------------------
(* Uploading *)

\* The button, disabled while a batch runs, or a drop, which is not.
StartUpload(b, S) ==
  /\ batch[b] = NoBatch /\ S # {} /\ Move("upload")
  /\ batch' = [batch EXCEPT ![b] = [NoBatch EXCEPT !.pc = "next", !.files = S, !.left = S]]
  /\ UNCHANGED <<server, view, cache, deletes, lost, orphaned, behind>>

Go(b, pc) == batch' = [batch EXCEPT ![b].pc = pc]

NextFile(b) ==
  /\ batch[b].pc = "next"
  /\ \E f \in batch[b].left :
       batch' = [batch EXCEPT ![b].pc = IF f \in Big THEN "initiate" ELSE "single",
                              ![b].file = f, ![b].left = @ \ {f},
                              ![b].session = 0, ![b].chunk = 0]
  /\ UNCHANGED <<server, view, cache, deletes, watch>>

Created(b) == rows' = rows \cup {[id |-> clock + 1, file |-> batch[b].file]} /\ clock' = clock + 1

Succeeded(b) == batch' = [batch EXCEPT ![b].pc = "next", ![b].created = @ \cup {batch[b].file}]

\* Mutant of Failed: the files left are not attempted.
FailedForGood(b) ==
  batch' = [batch EXCEPT ![b].pc = "next", ![b].left = {},
                         ![b].failures = @ \cup {batch[b].file}]

Failed(b) == batch' = [batch EXCEPT ![b].pc = "next", ![b].failures = @ \cup {batch[b].file}]

\* The server's answer to a request the client gets no answer to, if any.
Fault == Move("netFail")

uploadSingleShot(b) ==
  /\ batch[b].pc = "single"
  /\ \/ Created(b) /\ Succeeded(b) /\ UNCHANGED moves
     \/ Fault /\ Created(b) /\ Failed(b)
     \/ (Fault \/ Move("refuse")) /\ Failed(b) /\ UNCHANGED <<rows, clock>>
  /\ UNCHANGED <<sessions, view, cache, deletes, lost, orphaned, behind>>

initiateUpload(b) ==
  LET s == clock + 1 IN
  /\ batch[b].pc = "initiate"
  /\ \/ /\ sessions' = sessions \cup {s} /\ clock' = s
        /\ batch' = [batch EXCEPT ![b].pc = "chunk", ![b].session = s]
        /\ UNCHANGED <<orphaned, moves>>
     \/ /\ Fault /\ Failed(b)
        /\ sessions' = sessions \cup {s} /\ clock' = s /\ orphaned' = orphaned \cup {s}
     \/ (Fault \/ Move("refuse")) /\ Failed(b) /\ UNCHANGED <<sessions, clock, orphaned>>
  /\ UNCHANGED <<rows, view, cache, deletes, lost, behind>>

Open(b) == batch[b].session \in sessions

\* A session that is gone is a 404.
uploadChunk(b) ==
  LET k == batch[b].chunk + 1 IN
  /\ batch[b].pc = "chunk"
  /\ \/ /\ Open(b) /\ UNCHANGED moves
        /\ batch' = [batch EXCEPT ![b].chunk = k,
                                  ![b].pc = IF k = ChunkCount THEN "complete" ELSE "chunk"]
     \/ ~Open(b) /\ Go(b, "abort") /\ UNCHANGED moves
     \/ Fault /\ Go(b, "abort")
  /\ UNCHANGED <<server, view, cache, deletes, lost, orphaned, behind>>

\* The server discards the session whether or not it stores the file.
completeUpload(b) ==
  LET Discard == sessions' = sessions \ {batch[b].session} IN
  /\ batch[b].pc = "complete"
  /\ \/ Open(b) /\ Discard /\ Created(b) /\ Succeeded(b) /\ UNCHANGED moves
     \/ Open(b) /\ Fault /\ Discard /\ Created(b) /\ Go(b, "abort")
     \/ Open(b) /\ Move("refuse") /\ Discard /\ Go(b, "abort") /\ UNCHANGED <<rows, clock>>
     \/ Fault /\ Go(b, "abort") /\ UNCHANGED server
     \/ ~Open(b) /\ Go(b, "abort") /\ UNCHANGED <<server, moves>>
  /\ UNCHANGED <<view, cache, deletes, lost, orphaned, behind>>

\* Mutant of abortUpload: the session is left to its timer.
NoAbort(b) ==
  /\ batch[b].pc = "abort"
  /\ Failed(b)
  /\ UNCHANGED <<server, view, cache, deletes, watch>>

\* Best-effort; the upload has failed for its own reason.
abortUpload(b) ==
  /\ batch[b].pc = "abort"
  /\ Failed(b)
  /\ \/ sessions' = sessions \ {batch[b].session} /\ UNCHANGED <<orphaned, moves>>
     \/ Fault /\ orphaned' = orphaned \cup {batch[b].session} /\ UNCHANGED sessions
  /\ UNCHANGED <<rows, clock, view, cache, deletes, lost, behind>>

\* Failures or not, mutationFn succeeds.
EndUpload(b) ==
  /\ batch[b].pc = "next" /\ batch[b].left = {}
  /\ invalidateQueries
  /\ batch' = [batch EXCEPT ![b] = NoBatch]
  /\ UNCHANGED <<server, view, deletes, lost, orphaned, moves>>

\* The server's idle timer.
Expire(s) ==
  /\ Move("expire")
  /\ sessions' = sessions \ {s}
  /\ UNCHANGED <<rows, clock, view, cache, deletes, batch, lost, orphaned, behind>>

-----------------------------------------------------------------------------

Upload(b) ==
  \/ NextFile(b) \/ uploadSingleShot(b)
  \/ initiateUpload(b) \/ uploadChunk(b) \/ completeUpload(b) \/ abortUpload(b)
  \/ EndUpload(b)

Next ==
  \/ \E v \in View : PageServed(v) \/ PageAnswered(v) \/ FetchFails(v) \/ SwitchView(v)
  \/ NextPage \/ Focus
  \/ \E r \in Shown(view) : handleDelete(r)
  \/ \E i \in DOMAIN deletes : DeleteServed(i) \/ DeleteAnswered(i) \/ DeleteFails(i)
  \/ \E b \in Batch : Upload(b) \/ \E S \in SUBSET File : StartUpload(b, S)
  \/ \E s \in sessions : Expire(s)

Spec == Init /\ [][Next]_vars

-----------------------------------------------------------------------------
(* Properties *)

Fetched == [page: SUBSET Row, more: BOOLEAN]

Cached == [pages: Seq(SUBSET Row), more: BOOLEAN, error: BOOLEAN,
           fetch: {"idle", "all", "next"}, got: Seq(SUBSET Row), answer: SUBSET Fetched]

Uploading == [pc: {"idle", "next", "single", "initiate", "chunk", "complete", "abort"},
              files: SUBSET File, left: SUBSET File, file: File, session: Nat,
              chunk: 0..ChunkCount, failures: SUBSET File, created: SUBSET File]

\* The server's, the cache's and the mutations' state keep their shape.
TypeOK ==
  /\ rows \subseteq Row /\ sessions \subseteq Nat /\ clock \in Nat
  /\ view \in View /\ cache \in [View -> Cached]
  /\ \A v \in View : cache[v].fetch = "next" => cache[v].more
  /\ DOMAIN deletes \subseteq Nat
  /\ \A i \in DOMAIN deletes : deletes[i] \in {"sent", "done", "refused"}
  /\ batch \in [Batch -> Uploading]
  /\ lost \subseteq Nat /\ orphaned \subseteq Nat /\ moves \in Nat
  /\ behind \in [View -> {"no", "reading", "yes"}]

\* Once the user's mutations and the fetches for the view are over, the table
\* shows exactly the first files of the listing, as many pages as are loaded;
\* after a delete that was reported as failed, at least no other file that is
\* gone.  Excepted is a view behind: a mutation ended during its first load or
\* while it was off the screen, or the fetch that was to follow was called off by
\* scrolling, and no fetch of all its pages has been begun and finished since.
TableFresh ==
  Visible /\ cache[view].fetch = "idle" /\ ~Mutating /\ behind[view] = "no" =>
    IF lost = {}
    THEN Shown(view) = UNION {Page(view, k) : k \in 0..(Len(cache[view].pages) - 1)}
    ELSE \A r \in Shown(view) : r \in rows \/ r.id \in lost

\* A session is open on the server only while its batch is at work on it, unless
\* the client never heard of it or could not call it off: no failure leaves one
\* behind to wait for its timer.
SessionsFreed ==
  \A s \in sessions \ orphaned :
    \E b \in Batch : batch[b].session = s /\ batch[b].pc \in {"chunk", "complete", "abort"}

\* When a batch ends, each of its files has been attempted: it is on the server
\* or among the failures reported, and a failure does not stop the rest.
AllAccounted ==
  [][\A b \in Batch : batch[b].pc # "idle" /\ batch'[b].pc = "idle" =>
       batch[b].files = batch[b].created \cup batch[b].failures]_vars
=============================================================================
