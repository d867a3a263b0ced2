---------------------------- MODULE UploadSession ----------------------------
(***************************************************************************)
(* Chunked uploads: uploadSessionManager and the four calls of FileService *)
(* that use it.  A session is a scratch file that chunks are appended to,  *)
(* found through a map under the manager's mutex and worked on under a     *)
(* mutex of its own; it ends by CompleteUpload, AbortUpload or its timer.  *)
(*                                                                         *)
(* Sections under the manager's mutex are one step each.  The session's    *)
(* mutex is held across steps: whoever needs it waits for holder to be     *)
(* free.  A process is an HTTP call or the goroutine of a session's timer, *)
(* which is named after its session.  Every chunk has one unit of length.  *)
(***************************************************************************)
EXTENDS Integers, Sequences, FiniteSets

CONSTANTS
  Session,    \* upload ids; random, so never used twice
  Call,       \* slots for API calls being served at the same time
  NoHolder,   \* sess.mu is free
  MaxChunk,   \* bound: clients send chunks 0..MaxChunk-1
  Faults      \* of {"brokenBody", "createFails", "restart"}

ASSUME UploadSessionAssumption ==
  /\ MaxChunk \in Nat
  /\ Session \cap Call = {}
  /\ NoHolder \notin Session \cup Call

Process == Call \cup Session

\* What one append leaves in the scratch file: a chunk, or the beginning of
\* one whose request body broke off.
Piece == [chunk: Nat, whole: BOOLEAN]

\* The file the client sent, when it has n chunks.
Whole(n) == [k \in 1..n |-> [chunk |-> k - 1, whole |-> TRUE]]

VARIABLES
  sessions,   \* keys of uploadSessionManager.sessions
  declared, received, nextChunk,
  scratch,    \* pieces in the scratch file
  file,       \* state of the scratch file's handle and of the file itself
  expireAt,   \* the session's timer
  holder,     \* who has sess.mu
  proc,       \* what each process is doing
  stored      \* contents handed to Create with success, per session

vars == <<sessions, declared, received, nextChunk, scratch, file, expireAt,
          holder, proc, stored>>

data == <<declared, received, nextChunk, scratch>>

Idle == [pc |-> "idle"]

Busy == [pc: {"chunkWait", "chunkCopy"}, id: Session, index: Nat]
          \cup [pc: {"completeWait", "completeCreate", "remove", "close"}, id: Session]

Init ==
  /\ sessions = {}
  /\ declared = [s \in Session |-> 0]
  /\ received = [s \in Session |-> 0]
  /\ nextChunk = [s \in Session |-> 0]
  /\ scratch = [s \in Session |-> <<>>]
  /\ file = [s \in Session |-> "none"]
  /\ expireAt = [s \in Session |-> "none"]
  /\ holder = [s \in Session |-> NoHolder]
  /\ proc = [p \in Process |-> Idle]
  /\ stored = [s \in Session |-> <<>>]

Goto(p, q) == proc' = [proc EXCEPT ![p] = q]

Return(p) == Goto(p, Idle)

Acquire(p, s) ==
  /\ holder[s] = NoHolder
  /\ holder' = [holder EXCEPT ![s] = p]

\* Mutant of Release: the lock is never given back.
KeepLock(s) == UNCHANGED holder

Release(s) == holder' = [holder EXCEPT ![s] = NoHolder]

-----------------------------------------------------------------------------
(* InitiateUpload *)

InitiateUpload(c, s, size) ==
  /\ proc[c] = Idle
  /\ file[s] = "none"
  /\ declared' = [declared EXCEPT ![s] = size]
  /\ file' = [file EXCEPT ![s] = "open"]
  /\ expireAt' = [expireAt EXCEPT ![s] = "armed"]
  /\ sessions' = sessions \cup {s}
  /\ UNCHANGED <<received, nextChunk, scratch, holder, proc, stored>>

\* get: a call for a session that is not in the map returns at once.
Found(s) == s \in sessions

-----------------------------------------------------------------------------
(* UploadChunk: get, lock, check the index, append *)

ChunkGet(c, s, i) ==
  /\ proc[c] = Idle
  /\ Found(s)
  /\ Goto(c, [pc |-> "chunkWait", id |-> s, index |-> i])
  /\ UNCHANGED <<sessions, data, file, expireAt, holder, stored>>

\* Mutant of ChunkLock: the index is not compared.
AnyChunk(c) ==
  /\ proc[c].pc = "chunkWait"
  /\ Acquire(c, proc[c].id) /\ Goto(c, [proc[c] EXCEPT !.pc = "chunkCopy"])
  /\ UNCHANGED <<sessions, data, file, expireAt, stored>>

ChunkLock(c) ==
  LET s == proc[c].id IN
  /\ proc[c].pc = "chunkWait"
  /\ holder[s] = NoHolder
  /\ IF proc[c].index = nextChunk[s]
     THEN Acquire(c, s) /\ Goto(c, [proc[c] EXCEPT !.pc = "chunkCopy"])
     ELSE Return(c) /\ UNCHANGED holder
  /\ UNCHANGED <<sessions, data, file, expireAt, stored>>

ChunkWritten(c) ==
  LET s == proc[c].id IN
  /\ proc[c].pc = "chunkCopy" /\ file[s] = "open"
  /\ scratch' = [scratch EXCEPT ![s] = Append(@, [chunk |-> proc[c].index, whole |-> TRUE])]
  /\ received' = [received EXCEPT ![s] = @ + 1]
  /\ nextChunk' = [nextChunk EXCEPT ![s] = @ + 1]
  /\ expireAt' = [expireAt EXCEPT ![s] = "armed"]
  /\ Release(s) /\ Return(c)
  /\ UNCHANGED <<sessions, declared, file, stored>>

\* Bound: one request body per session breaks off after its first bytes.
Unbroken(s) == \A k \in DOMAIN scratch[s] : scratch[s][k].whole

\* Mutant of ChunkFails: the error path takes back a chunk that was not counted.
ChunkUncounted(c) ==
  LET s == proc[c].id IN
  /\ proc[c].pc = "chunkCopy"
  /\ "brokenBody" \in Faults
  /\ received' = [received EXCEPT ![s] = @ - 1]
  /\ nextChunk' = [nextChunk EXCEPT ![s] = @ - 1]
  /\ Release(s) /\ Return(c)
  /\ UNCHANGED <<sessions, declared, scratch, file, expireAt, stored>>

\* io.Copy fails: on a closed file at once, on a broken body before or after
\* some bytes have reached the scratch file.
ChunkFails(c) ==
  LET s == proc[c].id IN
  /\ proc[c].pc = "chunkCopy"
  /\ \/ /\ file[s] # "open" \/ "brokenBody" \in Faults
        /\ UNCHANGED scratch
     \/ /\ file[s] = "open" /\ "brokenBody" \in Faults /\ Unbroken(s)
        /\ scratch' = [scratch EXCEPT ![s] =
                         Append(@, [chunk |-> proc[c].index, whole |-> FALSE])]
  /\ Release(s) /\ Return(c)
  /\ UNCHANGED <<sessions, declared, received, nextChunk, file, expireAt, stored>>

-----------------------------------------------------------------------------
(* CompleteUpload: get, lock, check the size, Create, unlock, remove *)

CompleteGet(c, s) ==
  /\ proc[c] = Idle
  /\ Found(s)
  /\ Goto(c, [pc |-> "completeWait", id |-> s])
  /\ UNCHANGED <<sessions, data, file, expireAt, holder, stored>>

\* Too few or too many bytes, or a closed file, end the call; the deferred
\* remove still runs.
CompleteLock(c) ==
  LET s == proc[c].id IN
  /\ proc[c].pc = "completeWait"
  /\ holder[s] = NoHolder
  /\ IF received[s] = declared[s] /\ file[s] = "open"
     THEN Acquire(c, s) /\ Goto(c, [proc[c] EXCEPT !.pc = "completeCreate"])
     ELSE Goto(c, [proc[c] EXCEPT !.pc = "remove"]) /\ UNCHANGED holder
  /\ UNCHANGED <<sessions, data, file, expireAt, stored>>

\* Defers run in reverse order: the lock is released before remove starts.
CompleteCreate(c) ==
  LET s == proc[c].id IN
  /\ proc[c].pc = "completeCreate"
  /\ \/ stored' = [stored EXCEPT ![s] = Append(@, scratch[s])]
     \/ "createFails" \in Faults /\ UNCHANGED stored
  /\ Release(s)
  /\ Goto(c, [proc[c] EXCEPT !.pc = "remove"])
  /\ UNCHANGED <<sessions, data, file, expireAt>>

-----------------------------------------------------------------------------
(* AbortUpload, expire and remove *)

AbortGet(c, s) ==
  /\ proc[c] = Idle
  /\ Found(s)
  /\ Goto(c, [pc |-> "remove", id |-> s])
  /\ UNCHANGED <<sessions, data, file, expireAt, holder, stored>>

\* Mutant of Expire: no timer.
NoTimer(s) == FALSE

\* Also fires for a session already removed, when a late chunk re-armed it.
Expire(s) ==
  /\ expireAt[s] = "armed" /\ proc[s] = Idle
  /\ expireAt' = [expireAt EXCEPT ![s] = "fired"]
  /\ Goto(s, [pc |-> "remove", id |-> s])
  /\ UNCHANGED <<sessions, data, file, holder, stored>>

\* Mutant of RemoveEntry: a call that comes second waits.
RemoveOnce(p) ==
  LET s == proc[p].id IN
  /\ proc[p].pc = "remove" /\ s \in sessions
  /\ sessions' = sessions \ {s}
  /\ expireAt' = [expireAt EXCEPT ![s] = IF @ = "armed" THEN "stopped" ELSE @]
  /\ Goto(p, [proc[p] EXCEPT !.pc = "close"])
  /\ UNCHANGED <<data, file, holder, stored>>

\* Only the first remove of a session goes on to close its file.
RemoveEntry(p) ==
  LET s == proc[p].id IN
  /\ proc[p].pc = "remove"
  /\ IF s \in sessions
     THEN /\ sessions' = sessions \ {s}
          /\ expireAt' = [expireAt EXCEPT ![s] = IF @ = "armed" THEN "stopped" ELSE @]
          /\ Goto(p, [proc[p] EXCEPT !.pc = "close"])
     ELSE Return(p) /\ UNCHANGED <<sessions, expireAt>>
  /\ UNCHANGED <<data, file, holder, stored>>

\* Mutants of CloseFile: it does not wait for the lock; it leaves the file.
CloseAtOnce(p) ==
  /\ proc[p].pc = "close"
  /\ file' = [file EXCEPT ![proc[p].id] = "removed"]
  /\ Return(p)
  /\ UNCHANGED <<sessions, data, expireAt, holder, stored>>

LeaveFile(p) ==
  /\ proc[p].pc = "close"
  /\ Return(p)
  /\ UNCHANGED <<sessions, data, file, expireAt, holder, stored>>

\* Waits for sess.mu, closes the scratch file and unlinks it.
CloseFile(p) ==
  LET s == proc[p].id IN
  /\ proc[p].pc = "close"
  /\ holder[s] = NoHolder
  /\ file' = [file EXCEPT ![s] = "removed"]
  /\ Return(p)
  /\ UNCHANGED <<sessions, data, expireAt, holder, stored>>

\* Sessions live in memory only; the scratch files of open ones stay behind.
Restart ==
  /\ "restart" \in Faults
  /\ sessions' = {}
  /\ file' = [s \in Session |-> IF file[s] = "open" THEN "left" ELSE file[s]]
  /\ expireAt' = [s \in Session |-> "none"]
  /\ holder' = [s \in Session |-> NoHolder]
  /\ proc' = [p \in Process |-> Idle]
  /\ UNCHANGED <<data, stored>>

Request(c) ==
  \E s \in Session :
    \/ \E size \in 0..MaxChunk : InitiateUpload(c, s, size)
    \/ \E i \in 0..(MaxChunk - 1) : ChunkGet(c, s, i)
    \/ CompleteGet(c, s)
    \/ AbortGet(c, s)

Run(p) == RemoveEntry(p) \/ CloseFile(p)

Serve(c) ==
  \/ ChunkLock(c) \/ ChunkWritten(c) \/ ChunkFails(c)
  \/ CompleteLock(c) \/ CompleteCreate(c)

Next ==
  \/ \E c \in Call : Request(c) \/ Serve(c)
  \/ \E p \in Process : Run(p)
  \/ \E s \in Session : Expire(s)
  \/ Restart

Spec == Init /\ [][Next]_vars

\* Calls and timer goroutines are scheduled, Go's mutex does not starve a
\* waiter, and a timer nobody resets any more fires.  That the body of a chunk
\* ends or breaks off is up to the client: the server sets no read timeout.
FairSpec ==
  /\ Spec
  /\ \A c \in Call : SF_vars(Serve(c))
  /\ \A p \in Process : SF_vars(Run(p))
  /\ \A s \in Session : WF_vars(Expire(s))

-----------------------------------------------------------------------------
(* Properties *)

TypeOK ==
  /\ sessions \subseteq Session
  /\ declared \in [Session -> Nat]
  /\ received \in [Session -> Nat]
  /\ nextChunk \in [Session -> Nat]
  /\ scratch \in [Session -> Seq(Piece)]
  /\ file \in [Session -> {"none", "open", "removed", "left"}]
  /\ expireAt \in [Session -> {"none", "armed", "stopped", "fired"}]
  /\ holder \in [Session -> Process \cup {NoHolder}]
  /\ proc \in [Process -> {Idle} \cup Busy]
  /\ stored \in [Session -> Seq(Seq(Piece))]

\* Chunks are stored "strictly in order": whatever calls race on a session, and
\* whatever fails or restarts, every file it stores is the declared number of
\* chunks, each once, in order.  A request body that breaks off after some bytes
\* is the exception: they stay in the scratch file in front of the next attempt.
StoredInOrder ==
  \A s \in Session : Unbroken(s) =>
    \A k \in DOMAIN stored[s] : stored[s][k] = Whole(declared[s])

\* "A session can never be completed twice."
CompletedOnce == \A s \in Session : Len(stored[s]) <= 1

\* Whatever calls, timers and removes of one session meet, the scratch file this
\* server process has open belongs to a session that can be found, or one remove
\* that took it out of the map is about to unlink it; and a session that can be
\* found has its file open.  The files a restart leaves behind are nobody's: no
\* session, call or timer ever works on one again, so they stay for good.
ScratchAccountedFor ==
  \A s \in Session :
    /\ file[s] = "open" =>
         s \in sessions \/ \E p \in Process : proc[p].pc = "close" /\ proc[p].id = s
    /\ s \in sessions => file[s] = "open"
    /\ file[s] = "left" => \A p \in Process : proc[p] = Idle \/ proc[p].id # s

\* sess.mu belongs to the one process inside its critical section.
LockHeldByWorker ==
  \A s \in Session :
    /\ holder[s] # NoHolder =>
         /\ proc[holder[s]].pc \in {"chunkCopy", "completeCreate"}
         /\ proc[holder[s]].id = s
    /\ \A p \in Process :
         proc[p].pc \in {"chunkCopy", "completeCreate"} /\ proc[p].id = s => holder[s] = p

\* Once its scratch file is closed (the abort, completion or timer that took the
\* session out of the map is through) or cut off by a restart, an upload stores
\* nothing any more, also for a call that had found the session before.  Not
\* sooner: an AbortUpload that finds the entry gone answers while that remove
\* still waits for the lock, and a CompleteUpload may store after the answer.
ClosedIsFinal ==
  [][\A s \in Session : file[s] \in {"removed", "left"} => stored'[s] = stored[s]]_vars

\* Every call returns: no order of calls, timers and locks blocks for ever.
CallsReturn == \A p \in Process : proc[p] # Idle ~> proc[p] = Idle

\* An abandoned upload does not keep its scratch file, unless the server stops.
SessionsEnd == \A s \in Session : s \in sessions ~> file[s] \in {"removed", "left"}
=============================================================================
