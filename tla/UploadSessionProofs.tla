------------------------- MODULE UploadSessionProofs -------------------------
(* Chunked uploads for any number of calls, sessions and chunks: what the    *)
(* session's mutex and the closed scratch file guarantee.                    *)
EXTENDS UploadSession, SequenceTheorems, TLAPS

ChunkBusy == [pc: {"chunkWait", "chunkCopy"}, id: Session, index: Nat]

OtherBusy == [pc: {"completeWait", "completeCreate", "remove", "close"}, id: Session]

LEMMA ProcShapes ==
  ASSUME TypeOK, NEW p \in Process
  PROVE  /\ proc[p].pc \in {"chunkWait", "chunkCopy"} => proc[p] \in ChunkBusy
         /\ proc[p].pc \in {"completeWait", "completeCreate", "remove", "close"} =>
              proc[p] \in OtherBusy
         /\ proc[p].pc # "idle" => proc[p].id \in Session
         /\ proc[p].pc = "idle" => proc[p] = Idle
  BY DEF TypeOK, Busy, Idle, ChunkBusy, OtherBusy

\* A process moves on by changing its pc.
LEMMA Moves ==
  /\ \A q \in ChunkBusy : [q EXCEPT !.pc = "chunkCopy"] = [pc |-> "chunkCopy", id |-> q.id, index |-> q.index]
  /\ \A q \in OtherBusy, pc \in {"completeCreate", "remove", "close"} :
       [q EXCEPT !.pc = pc] = [pc |-> pc, id |-> q.id]
  BY DEF ChunkBusy, OtherBusy

LEMMA GotoFrame ==
  ASSUME TypeOK, NEW p \in Process, NEW q \in {Idle} \cup Busy, Goto(p, q)
  PROVE  /\ proc' \in [Process -> {Idle} \cup Busy]
         /\ proc'[p] = q
         /\ \A o \in Process : o # p => proc'[o] = proc[o]
  BY DEF TypeOK, Goto

\* Appending the next chunk to a whole prefix gives the next whole prefix.
LEMMA WholeGrows ==
  ASSUME NEW n \in Nat
  PROVE  /\ Whole(n) \in Seq(Piece)
         /\ Append(Whole(n), [chunk |-> n, whole |-> TRUE]) = Whole(n + 1)
<1> DEFINE e == [chunk |-> n, whole |-> TRUE]  w == Whole(n)
<1>1. e \in Piece
  BY DEF Piece
<1>2. w \in [1..n -> Piece]
  BY DEF Whole, Piece
<1>3. w \in Seq(Piece) /\ Len(w) = n
  BY <1>2, IsASeq, LenProperties
<1>4. /\ Append(w, e) \in Seq(Piece) /\ Len(Append(w, e)) = n + 1
      /\ \A k \in 1..n : Append(w, e)[k] = w[k]
      /\ Append(w, e)[n + 1] = e
  BY <1>1, <1>3, AppendProperties
<1>5. Whole(n + 1) \in Seq(Piece) /\ Len(Whole(n + 1)) = n + 1
  <2>1. Whole(n + 1) \in [1..(n + 1) -> Piece]
    BY DEF Whole, Piece
  <2> QED
    BY <2>1, IsASeq, LenProperties
<1>6. ASSUME NEW k \in 1..(n + 1) PROVE Append(w, e)[k] = Whole(n + 1)[k]
  <2>1. Whole(n + 1)[k] = [chunk |-> k - 1, whole |-> TRUE]
    BY DEF Whole
  <2>2. CASE k = n + 1
    BY <1>4, <2>1, <2>2
  <2>3. CASE k \in 1..n
    <3>1. w[k] = [chunk |-> k - 1, whole |-> TRUE]
      BY <2>3 DEF Whole
    <3> QED
      BY <1>4, <2>1, <2>3, <3>1
  <2>4. k = n + 1 \/ k \in 1..n
    OBVIOUS
  <2> QED
    BY <2>2, <2>3, <2>4
<1>7. Append(w, e) = Whole(n + 1)
  BY <1>4, <1>5, <1>6, SeqEqual
<1> QED
  BY <1>3, <1>7

-----------------------------------------------------------------------------
(* Types *)

LEMMA BusyShapes ==
  /\ Idle \in {Idle} \cup Busy
  /\ \A s \in Session, i \in Nat, pc \in {"chunkWait", "chunkCopy"} :
       [pc |-> pc, id |-> s, index |-> i] \in Busy
  /\ \A s \in Session, pc \in {"completeWait", "completeCreate", "remove", "close"} :
       [pc |-> pc, id |-> s] \in Busy
  BY DEF Busy

LEMMA TypeInit == Init => TypeOK
<1> SUFFICES ASSUME Init PROVE TypeOK
  OBVIOUS
<1>1. <<>> \in Seq(Piece) /\ <<>> \in Seq(Seq(Piece))
  BY EmptySeq
<1> QED
  BY <1>1 DEF Init, TypeOK, Process

LEMMA TypeNext == TypeOK /\ [Next]_vars => TypeOK'
<1> SUFFICES ASSUME TypeOK, [Next]_vars PROVE TypeOK'
  OBVIOUS
<1> USE DEF data
<1>p. Call \subseteq Process /\ Session \subseteq Process
  BY DEF Process
<1>1. ASSUME NEW c \in Call, NEW s \in Session, NEW size \in 0..MaxChunk, InitiateUpload(c, s, size)
      PROVE  TypeOK'
  BY <1>1, UploadSessionAssumption DEF InitiateUpload, TypeOK
<1>2. ASSUME NEW c \in Call, NEW s \in Session, NEW i \in 0..(MaxChunk - 1), ChunkGet(c, s, i)
      PROVE  TypeOK'
  <2>1. i \in Nat
    BY UploadSessionAssumption
  <2> QED
    BY <1>2, <1>p, <2>1, BusyShapes, GotoFrame DEF ChunkGet, Found, TypeOK
<1>3. ASSUME NEW c \in Call, ChunkLock(c) PROVE TypeOK'
  <2>1. proc[c] \in ChunkBusy /\ proc[c].id \in Session /\ proc[c].index \in Nat
    BY <1>3, <1>p, ProcShapes DEF ChunkLock, ChunkBusy
  <2>2. [proc[c] EXCEPT !.pc = "chunkCopy"] \in Busy
    BY <2>1 DEF ChunkBusy, Busy
  <2>3. proc' \in [Process -> {Idle} \cup Busy]
    BY <1>3, <1>p, <2>2, GotoFrame, BusyShapes DEF ChunkLock, Return
  <2> QED
    BY <1>3, <1>p, <2>1, <2>3 DEF ChunkLock, Acquire, TypeOK
<1>4. ASSUME NEW c \in Call, ChunkWritten(c) PROVE TypeOK'
  <2>1. proc[c].id \in Session /\ proc[c].index \in Nat
    BY <1>4, <1>p, ProcShapes DEF ChunkWritten, ChunkBusy
  <2>2. [chunk |-> proc[c].index, whole |-> TRUE] \in Piece
    BY <2>1 DEF Piece
  <2>3. Append(scratch[proc[c].id], [chunk |-> proc[c].index, whole |-> TRUE]) \in Seq(Piece)
    BY <2>1, <2>2, AppendProperties DEF TypeOK
  <2>4. proc' \in [Process -> {Idle} \cup Busy]
    BY <1>4, <1>p, GotoFrame, BusyShapes DEF ChunkWritten, Return
  <2>5. scratch' \in [Session -> Seq(Piece)]
    BY <1>4, <2>3 DEF ChunkWritten, TypeOK
  <2>6. received' \in [Session -> Nat] /\ nextChunk' \in [Session -> Nat]
    BY <1>4, <2>1 DEF ChunkWritten, TypeOK
  <2>7. UNCHANGED <<sessions, declared, file, stored>>
    BY <1>4 DEF ChunkWritten
  <2>8. expireAt' \in [Session -> {"none", "armed", "stopped", "fired"}]
    BY <1>4 DEF ChunkWritten, TypeOK
  <2>9. holder' \in [Session -> Process \cup {NoHolder}]
    BY <1>4 DEF ChunkWritten, Release, TypeOK
  <2> QED
    BY <2>4, <2>5, <2>6, <2>7, <2>8, <2>9 DEF TypeOK
<1>5. ASSUME NEW c \in Call, ChunkFails(c) PROVE TypeOK'
  <2>1. proc[c].id \in Session /\ proc[c].index \in Nat
    BY <1>5, <1>p, ProcShapes DEF ChunkFails, ChunkBusy
  <2>2. [chunk |-> proc[c].index, whole |-> FALSE] \in Piece
    BY <2>1 DEF Piece
  <2>3. Append(scratch[proc[c].id], [chunk |-> proc[c].index, whole |-> FALSE]) \in Seq(Piece)
    BY <2>1, <2>2, AppendProperties DEF TypeOK
  <2>4. proc' \in [Process -> {Idle} \cup Busy]
    BY <1>5, <1>p, GotoFrame, BusyShapes DEF ChunkFails, Return
  <2> QED
    BY <1>5, <2>1, <2>3, <2>4 DEF ChunkFails, Release, TypeOK
<1>6. ASSUME NEW c \in Call, NEW s \in Session, CompleteGet(c, s) PROVE TypeOK'
  BY <1>6, <1>p, BusyShapes, GotoFrame DEF CompleteGet, Found, TypeOK
<1>7. ASSUME NEW c \in Call, CompleteLock(c) PROVE TypeOK'
  <2>1. proc[c] \in OtherBusy /\ proc[c].id \in Session
    BY <1>7, <1>p, ProcShapes DEF CompleteLock, OtherBusy
  <2>2. /\ [proc[c] EXCEPT !.pc = "completeCreate"] \in Busy
        /\ [proc[c] EXCEPT !.pc = "remove"] \in Busy
    BY <2>1, Moves, BusyShapes
  <2>3. proc' \in [Process -> {Idle} \cup Busy]
    BY <1>7, <1>p, <2>2, GotoFrame DEF CompleteLock
  <2> QED
    BY <1>7, <1>p, <2>1, <2>3 DEF CompleteLock, Acquire, TypeOK
<1>8. ASSUME NEW c \in Call, CompleteCreate(c) PROVE TypeOK'
  <2>1. proc[c] \in OtherBusy /\ proc[c].id \in Session
    BY <1>8, <1>p, ProcShapes DEF CompleteCreate, OtherBusy
  <2>2. [proc[c] EXCEPT !.pc = "remove"] \in Busy
    BY <2>1, Moves, BusyShapes
  <2>3. proc' \in [Process -> {Idle} \cup Busy]
    BY <1>8, <1>p, <2>2, GotoFrame DEF CompleteCreate
  <2>4. Append(stored[proc[c].id], scratch[proc[c].id]) \in Seq(Seq(Piece))
    BY <2>1, AppendProperties DEF TypeOK
  <2> QED
    BY <1>8, <2>1, <2>3, <2>4 DEF CompleteCreate, Release, TypeOK
<1>9. ASSUME NEW c \in Call, NEW s \in Session, AbortGet(c, s) PROVE TypeOK'
  BY <1>9, <1>p, BusyShapes, GotoFrame DEF AbortGet, Found, TypeOK
<1>10. ASSUME NEW s \in Session, Expire(s) PROVE TypeOK'
  BY <1>10, <1>p, BusyShapes, GotoFrame DEF Expire, TypeOK
<1>11. ASSUME NEW p \in Process, RemoveEntry(p) PROVE TypeOK'
  <2>1. proc[p] \in OtherBusy /\ proc[p].id \in Session
    BY <1>11, ProcShapes DEF RemoveEntry, OtherBusy
  <2>2. [proc[p] EXCEPT !.pc = "close"] \in Busy
    BY <2>1, Moves, BusyShapes
  <2>3. proc' \in [Process -> {Idle} \cup Busy]
    BY <1>11, <2>2, GotoFrame, BusyShapes DEF RemoveEntry, Return
  <2> QED
    BY <1>11, <2>1, <2>3 DEF RemoveEntry, TypeOK
<1>12. ASSUME NEW p \in Process, CloseFile(p) PROVE TypeOK'
  <2>1. proc' \in [Process -> {Idle} \cup Busy]
    BY <1>12, GotoFrame, BusyShapes DEF CloseFile, Return
  <2> QED
    BY <1>12, <2>1 DEF CloseFile, TypeOK
<1>13. ASSUME Restart PROVE TypeOK'
  BY <1>13 DEF Restart, TypeOK
<1>14. CASE UNCHANGED vars
  BY <1>14 DEF vars, TypeOK
<1> QED
  BY <1>1, <1>2, <1>3, <1>4, <1>5, <1>6, <1>7, <1>8, <1>9, <1>10, <1>11, <1>12, <1>13, <1>14
  DEF Next, Request, Serve, Run

\* Type correctness, for any number of calls and sessions and all faults.
THEOREM SessionTypes == Spec => []TypeOK
  BY TypeInit, TypeNext, PTL DEF Spec

-----------------------------------------------------------------------------
(* The session's mutex *)

\* A session nobody has opened is untouched.
Unopened ==
  \A s \in Session : file[s] = "none" =>
    /\ s \notin sessions /\ expireAt[s] # "armed"
    /\ stored[s] = <<>> /\ scratch[s] = <<>> /\ nextChunk[s] = 0 /\ received[s] = 0
    /\ \A p \in Process : proc[p].pc # "idle" => proc[p].id # s

\* What a worker checked under the mutex stays true while it holds it.
Checked ==
  \A p \in Process :
    /\ proc[p].pc = "chunkCopy" => proc[p].index = nextChunk[proc[p].id]
    /\ proc[p].pc = "completeCreate" =>
         received[proc[p].id] = declared[proc[p].id] /\ file[proc[p].id] = "open"

LockInv == Unopened /\ LockHeldByWorker /\ Checked

LEMMA LockInit == Init => LockInv
  BY DEF Init, LockInv, Unopened, LockHeldByWorker, Checked, Process, Idle

\* Steps that take no mutex and touch no data but may move one process.
LEMMA LockQuiet ==
  ASSUME TypeOK, LockInv, UNCHANGED <<data, holder, stored>>, NEW p \in Process,
         \A o \in Process : o # p => proc'[o] = proc[o],
         proc[p].pc \notin {"chunkCopy", "completeCreate"},
         proc'[p].pc \notin {"chunkCopy", "completeCreate"},
         proc'[p].pc # "idle" => file[proc'[p].id] # "none",
         \A s \in Session : expireAt'[s] = "armed" => expireAt[s] = "armed",
         \A s \in Session : file'[s] # file[s] => file'[s] # "none" /\ holder[s] = NoHolder,
         sessions' \subseteq sessions
  PROVE  LockInv'
<1> USE DEF data
<1>1. Unopened'
  BY DEF LockInv, Unopened
<1>h. \A t \in Session : holder[t] \in Process \cup {NoHolder}
  BY DEF TypeOK
<1>2. LockHeldByWorker'
  BY <1>h DEF LockInv, LockHeldByWorker
<1>3. Checked'
  BY ProcShapes, UploadSessionAssumption DEF LockInv, Checked, LockHeldByWorker, Process
<1> QED
  BY <1>1, <1>2, <1>3 DEF LockInv

LEMMA LockNext ==
  ASSUME TypeOK, LockInv, [Next]_vars
  PROVE  LockInv'
<1> USE DEF data
<1>p. Call \subseteq Process /\ Session \subseteq Process /\ NoHolder \notin Process
  BY UploadSessionAssumption DEF Process
<1>h. \A t \in Session : holder[t] \in Process \cup {NoHolder}
  BY DEF TypeOK
<1>1. ASSUME NEW c \in Call, NEW s \in Session, NEW size \in 0..MaxChunk, InitiateUpload(c, s, size)
      PROVE  LockInv'
  <2>1. /\ file[s] = "none" /\ file'[s] = "open"
        /\ \A t \in Session : t # s => file'[t] = file[t] /\ declared'[t] = declared[t]
                                      /\ expireAt'[t] = expireAt[t]
        /\ sessions' = sessions \cup {s}
        /\ UNCHANGED <<received, nextChunk, scratch, holder, proc, stored>>
    BY <1>1 DEF InitiateUpload, TypeOK
  <2>2. \A p \in Process : proc[p].pc # "idle" => proc[p].id # s /\ proc[p].id \in Session
    BY <2>1, ProcShapes DEF LockInv, Unopened
  <2>3. Unopened' /\ LockHeldByWorker'
    BY <2>1 DEF LockInv, Unopened, LockHeldByWorker
  <2>4. Checked'
    BY <2>1, <2>2 DEF LockInv, Checked
  <2> QED
    BY <2>3, <2>4 DEF LockInv
<1>2. ASSUME NEW c \in Call, NEW s \in Session, NEW i \in 0..(MaxChunk - 1), ChunkGet(c, s, i)
      PROVE  LockInv'
  <2>1. i \in Nat /\ file[s] # "none"
    BY <1>2, UploadSessionAssumption DEF ChunkGet, Found, LockInv, Unopened
  <2> DEFINE q == [pc |-> "chunkWait", id |-> s, index |-> i]
  <2>2. q \in Busy /\ q.pc = "chunkWait" /\ q.id = s /\ Goto(c, q)
    BY <1>2, <2>1, BusyShapes DEF ChunkGet, Found
  <2> HIDE DEF q
  <2>3. proc'[c] = q /\ \A o \in Process : o # c => proc'[o] = proc[o]
    BY <1>p, <2>2, GotoFrame
  <2> QED
    BY <1>2, <1>p, <2>1, <2>2, <2>3, LockQuiet DEF ChunkGet, Found, Idle
<1>3. ASSUME NEW c \in Call, ChunkLock(c) PROVE LockInv'
  <2> DEFINE s == proc[c].id
  <2>1. proc[c] \in ChunkBusy /\ s \in Session /\ holder[s] = NoHolder /\ file[s] # "none"
    BY <1>3, <1>p, ProcShapes DEF ChunkLock, ChunkBusy, LockInv, Unopened
  <2>w. proc[c].pc = "chunkWait"
    BY <1>3 DEF ChunkLock
  <2>2. CASE proc[c].index # nextChunk[s]
    <3>1. proc'[c] = Idle /\ \A o \in Process : o # c => proc'[o] = proc[o]
      BY <1>3, <1>p, <2>2, GotoFrame, BusyShapes DEF ChunkLock, Return
    <3> QED
      BY <1>3, <1>p, <2>2, <3>1, LockQuiet DEF ChunkLock, Idle
  <2>3. CASE proc[c].index = nextChunk[s]
    <3> DEFINE q == [proc[c] EXCEPT !.pc = "chunkCopy"]
    <3>1. q \in Busy /\ q.pc = "chunkCopy" /\ q.id = s /\ q.index = nextChunk[s] /\ Goto(c, q)
      BY <1>3, <2>1, <2>3 DEF ChunkLock, ChunkBusy, Busy
    <3> HIDE DEF q
    <3>2. proc'[c] = q /\ \A o \in Process : o # c => proc'[o] = proc[o]
      BY <1>p, <3>1, GotoFrame
    <3>3. holder'[s] = c /\ \A t \in Session : t # s => holder'[t] = holder[t]
      BY <1>3, <2>1, <2>3 DEF ChunkLock, Acquire, TypeOK
    <3>4. UNCHANGED <<sessions, data, file, expireAt, stored>>
      BY <1>3 DEF ChunkLock
    <3> HIDE DEF s
    <3>5. Unopened'
      BY <2>1, <3>1, <3>2, <3>4 DEF LockInv, Unopened
    <3>6. LockHeldByWorker'
      BY <1>p, <1>h, <2>1, <2>w, <3>1, <3>2, <3>3 DEF LockInv, LockHeldByWorker
    <3>7. Checked'
      BY <3>1, <3>2, <3>4 DEF LockInv, Checked
    <3> QED
      BY <3>5, <3>6, <3>7 DEF LockInv
  <2> QED
    BY <2>2, <2>3
<1>4. ASSUME NEW c \in Call, ChunkWritten(c) \/ ChunkFails(c) PROVE LockInv'
  <2> DEFINE s == proc[c].id
  <2>1. s \in Session /\ proc[c].pc = "chunkCopy" /\ holder[s] = c /\ file[s] # "none"
    BY <1>4, <1>p, ProcShapes
    DEF ChunkWritten, ChunkFails, ChunkBusy, LockInv, Unopened, LockHeldByWorker
  <2>2. proc'[c] = Idle /\ \A o \in Process : o # c => proc'[o] = proc[o]
    BY <1>4, <1>p, GotoFrame, BusyShapes DEF ChunkWritten, ChunkFails, Return
  <2>3. holder'[s] = NoHolder /\ \A t \in Session : t # s => holder'[t] = holder[t]
    BY <1>4, <2>1 DEF ChunkWritten, ChunkFails, Release, TypeOK
  <2>4. /\ UNCHANGED <<sessions, declared, file, stored>>
        /\ \A t \in Session : t # s =>
             /\ received'[t] = received[t] /\ nextChunk'[t] = nextChunk[t]
             /\ scratch'[t] = scratch[t] /\ expireAt'[t] = expireAt[t]
    BY <1>4, <2>1 DEF ChunkWritten, ChunkFails, TypeOK
  <2> HIDE DEF s
  <2>5. \A o \in Process : o # c /\ proc[o].pc \in {"chunkCopy", "completeCreate"} =>
          proc[o].id # s /\ proc[o].id \in Session
    BY <2>1, ProcShapes DEF LockInv, LockHeldByWorker
  <2>6. Unopened'
    BY <2>1, <2>2, <2>4 DEF LockInv, Unopened, Idle
  <2>7. LockHeldByWorker'
    BY <1>p, <1>h, <2>1, <2>2, <2>3, <2>5 DEF LockInv, LockHeldByWorker, Idle
  <2>8. Checked'
    BY <2>2, <2>4, <2>5 DEF LockInv, Checked, Idle
  <2> QED
    BY <2>6, <2>7, <2>8 DEF LockInv
<1>5. ASSUME NEW c \in Call, NEW s \in Session, CompleteGet(c, s) \/ AbortGet(c, s) PROVE LockInv'
  <2>1. /\ UNCHANGED <<sessions, data, file, expireAt, holder, stored>> /\ proc[c] = Idle
        /\ file[s] # "none"
    BY <1>5 DEF CompleteGet, AbortGet, Found, LockInv, Unopened
  <2>2. PICK q \in Busy : q.id = s /\ q.pc \in {"completeWait", "remove"} /\ Goto(c, q)
    <3>1. \A pc \in {"completeWait", "remove"} : [pc |-> pc, id |-> s] \in Busy
      BY BusyShapes
    <3>2. \E pc \in {"completeWait", "remove"} : Goto(c, [pc |-> pc, id |-> s])
      BY <1>5 DEF CompleteGet, AbortGet, Found
    <3> QED
      BY <3>1, <3>2
  <2>3. proc'[c] = q /\ \A o \in Process : o # c => proc'[o] = proc[o]
    BY <1>p, <2>2, GotoFrame
  <2> QED
    BY <1>p, <2>1, <2>2, <2>3, LockQuiet DEF Idle
<1>6. ASSUME NEW c \in Call, CompleteLock(c) PROVE LockInv'
  <2> DEFINE s == proc[c].id
  <2>1. proc[c] \in OtherBusy /\ s \in Session /\ holder[s] = NoHolder /\ file[s] # "none"
    BY <1>6, <1>p, ProcShapes DEF CompleteLock, OtherBusy, LockInv, Unopened
  <2>w. proc[c].pc = "completeWait"
    BY <1>6 DEF CompleteLock
  <2>2. CASE ~(received[s] = declared[s] /\ file[s] = "open")
    <3> DEFINE q == [proc[c] EXCEPT !.pc = "remove"]
    <3>1. q \in Busy /\ q.pc = "remove" /\ q.id = s /\ Goto(c, q)
      BY <1>6, <2>1, <2>2, Moves, BusyShapes DEF CompleteLock
    <3> HIDE DEF q
    <3>2. proc'[c] = q /\ \A o \in Process : o # c => proc'[o] = proc[o]
      BY <1>p, <3>1, GotoFrame
    <3> QED
      BY <1>6, <1>p, <2>1, <2>2, <3>1, <3>2, LockQuiet DEF CompleteLock
  <2>3. CASE received[s] = declared[s] /\ file[s] = "open"
    <3> DEFINE q == [proc[c] EXCEPT !.pc = "completeCreate"]
    <3>1. q \in Busy /\ q.pc = "completeCreate" /\ q.id = s /\ Goto(c, q)
      BY <1>6, <2>1, <2>3, Moves, BusyShapes DEF CompleteLock
    <3> HIDE DEF q
    <3>2. proc'[c] = q /\ \A o \in Process : o # c => proc'[o] = proc[o]
      BY <1>p, <3>1, GotoFrame
    <3>3. holder'[s] = c /\ \A t \in Session : t # s => holder'[t] = holder[t]
      BY <1>6, <2>1, <2>3 DEF CompleteLock, Acquire, TypeOK
    <3>4. UNCHANGED <<sessions, data, file, expireAt, stored>>
      BY <1>6 DEF CompleteLock
    <3> HIDE DEF s
    <3>5. Unopened'
      BY <2>1, <3>1, <3>2, <3>4 DEF LockInv, Unopened
    <3>6. LockHeldByWorker'
      BY <1>p, <1>h, <2>1, <2>w, <3>1, <3>2, <3>3 DEF LockInv, LockHeldByWorker
    <3>7. Checked'
      BY <2>3, <3>1, <3>2, <3>4 DEF LockInv, Checked
    <3> QED
      BY <3>5, <3>6, <3>7 DEF LockInv
  <2> QED
    BY <2>2, <2>3
<1>7. ASSUME NEW c \in Call, CompleteCreate(c) PROVE LockInv'
  <2> DEFINE s == proc[c].id  q == [proc[c] EXCEPT !.pc = "remove"]
  <2>1. proc[c] \in OtherBusy /\ s \in Session /\ proc[c].pc = "completeCreate" /\ holder[s] = c
        /\ file[s] # "none"
    BY <1>7, <1>p, ProcShapes DEF CompleteCreate, OtherBusy, LockInv, Unopened, LockHeldByWorker
  <2>2. q \in Busy /\ q.pc = "remove" /\ q.id = s /\ Goto(c, q)
    BY <1>7, <2>1, Moves, BusyShapes DEF CompleteCreate
  <2> HIDE DEF q
  <2>3. proc'[c] = q /\ \A o \in Process : o # c => proc'[o] = proc[o]
    BY <1>p, <2>2, GotoFrame
  <2>4. holder'[s] = NoHolder /\ \A t \in Session : t # s => holder'[t] = holder[t]
    BY <1>7, <2>1 DEF CompleteCreate, Release, TypeOK
  <2>5. /\ UNCHANGED <<sessions, data, file, expireAt>>
        /\ \A t \in Session : t # s => stored'[t] = stored[t]
    BY <1>7, <2>1 DEF CompleteCreate, TypeOK
  <2> HIDE DEF s
  <2>6. Unopened'
    BY <2>1, <2>2, <2>3, <2>5 DEF LockInv, Unopened
  <2>7. LockHeldByWorker'
    BY <1>p, <1>h, <2>1, <2>2, <2>3, <2>4 DEF LockInv, LockHeldByWorker
  <2>8. Checked'
    BY <2>2, <2>3, <2>5 DEF LockInv, Checked
  <2> QED
    BY <2>6, <2>7, <2>8 DEF LockInv
<1>8. ASSUME NEW s \in Session, Expire(s) PROVE LockInv'
  <2> DEFINE q == [pc |-> "remove", id |-> s]
  <2>q. q \in Busy /\ q.id = s /\ q.pc = "remove" /\ Goto(s, q)
    BY <1>8, BusyShapes DEF Expire
  <2> HIDE DEF q
  <2>1. /\ proc'[s].id = s /\ proc'[s].pc = "remove"
        /\ \A o \in Process : o # s => proc'[o] = proc[o]
    BY <1>p, <2>q, GotoFrame
  <2>2. file[s] # "none"
    BY <1>8 DEF Expire, LockInv, Unopened
  <2>3. \A t \in Session : expireAt'[t] = "armed" => expireAt[t] = "armed"
    BY <1>8 DEF Expire, TypeOK
  <2> QED
    BY <1>8, <1>p, <2>1, <2>2, <2>3, LockQuiet DEF Expire, Idle
<1>9. ASSUME NEW p \in Process, RemoveEntry(p) PROVE LockInv'
  <2>1. proc[p] \in OtherBusy /\ proc[p].id \in Session /\ file[proc[p].id] # "none"
    BY <1>9, ProcShapes DEF RemoveEntry, OtherBusy, LockInv, Unopened
  <2>2. [proc[p] EXCEPT !.pc = "close"] = [pc |-> "close", id |-> proc[p].id]
    BY <2>1, Moves
  <2>3. /\ \/ proc'[p] = Idle
           \/ proc'[p] = [pc |-> "close", id |-> proc[p].id]
        /\ \A o \in Process : o # p => proc'[o] = proc[o]
    BY <1>9, <2>1, <2>2, BusyShapes, GotoFrame DEF RemoveEntry, Return
  <2>4. \A t \in Session : expireAt'[t] = "armed" => expireAt[t] = "armed"
    BY <1>9 DEF RemoveEntry, TypeOK
  <2>5. /\ sessions' \subseteq sessions /\ UNCHANGED <<data, file, holder, stored>>
        /\ proc[p].pc = "remove"
    BY <1>9 DEF RemoveEntry
  <2> QED
    BY <2>1, <2>3, <2>4, <2>5, LockQuiet DEF Idle
<1>10. ASSUME NEW p \in Process, CloseFile(p) PROVE LockInv'
  <2>1. proc'[p] = Idle /\ \A o \in Process : o # p => proc'[o] = proc[o]
    BY <1>10, BusyShapes, GotoFrame DEF CloseFile, Return
  <2>2. \A t \in Session : file'[t] # file[t] => file'[t] # "none" /\ holder[t] = NoHolder
    BY <1>10 DEF CloseFile, TypeOK
  <2> QED
    BY <1>10, <2>1, <2>2, LockQuiet DEF CloseFile, Idle
<1>11. ASSUME Restart PROVE LockInv'
  BY <1>11, <1>p DEF Restart, LockInv, Unopened, LockHeldByWorker, Checked, Idle
<1>12. CASE UNCHANGED vars
  BY <1>12 DEF vars, LockInv, Unopened, LockHeldByWorker, Checked
<1> QED
  BY <1>1, <1>2, <1>3, <1>4, <1>5, <1>6, <1>7, <1>8, <1>9, <1>10, <1>11, <1>12
  DEF Next, Request, Serve, Run

\* sess.mu keeps every other call out of a chunk's append and out of Create,
\* whatever calls, timers, faults and restarts meet on the session.
THEOREM MutexHolds == Spec => []LockHeldByWorker
<1>1. Init => TypeOK /\ LockInv
  BY TypeInit, LockInit
<1>2. TypeOK /\ LockInv /\ [Next]_vars => TypeOK' /\ LockInv'
  BY TypeNext, LockNext
<1>3. LockInv => LockHeldByWorker
  BY DEF LockInv
<1> QED
  BY <1>1, <1>2, <1>3, PTL DEF Spec

\* Once its scratch file is closed or left behind, a session never stores again,
\* also for a call that found it before: who stores holds the lock over an open
\* file, and the file is closed under the lock.
THEOREM ClosedStoresNothing == Spec => ClosedIsFinal
<1> DEFINE Final == \A s \in Session : file[s] \in {"removed", "left"} => stored'[s] = stored[s]
<1>1. Init => TypeOK /\ LockInv
  BY TypeInit, LockInit
<1>2. TypeOK /\ LockInv /\ [Next]_vars => TypeOK' /\ LockInv'
  BY TypeNext, LockNext
<1>3. ASSUME TypeOK, LockInv, [Next]_vars PROVE [Final]_vars
  <2>1. ASSUME NEW c \in Call, CompleteCreate(c) PROVE Final
    <3>1. proc[c].id \in Session /\ c \in Process
      BY <1>3, <2>1, ProcShapes DEF CompleteCreate, Process
    <3>2. file[proc[c].id] = "open"
      BY <1>3, <2>1, <3>1 DEF CompleteCreate, LockInv, Checked
    <3>3. \A t \in Session : t # proc[c].id => stored'[t] = stored[t]
      BY <1>3, <2>1, <3>1 DEF CompleteCreate, TypeOK
    <3> QED
      BY <3>2, <3>3
  <2>2. ASSUME ~\E c \in Call : CompleteCreate(c), Next PROVE UNCHANGED stored
    BY <2>2 DEF Next, Request, Serve, Run, InitiateUpload, ChunkGet, Found, ChunkLock, ChunkWritten,
       ChunkFails, CompleteGet, CompleteLock, AbortGet, Expire, RemoveEntry, CloseFile, Restart
  <2> QED
    BY <2>1, <2>2, <1>3
<1> QED
  BY <1>1, <1>2, <1>3, PTL DEF Spec, ClosedIsFinal

-----------------------------------------------------------------------------
(* Chunks in order *)

\* Between chunks the scratch file is the chunks counted so far, unless a body
\* has broken off in it.
ScratchInv ==
  \A s \in Session :
    received[s] = nextChunk[s] /\ (Unbroken(s) => scratch[s] = Whole(nextChunk[s]))

OrderInv == ScratchInv /\ StoredInOrder

LEMMA OrderNext ==
  ASSUME TypeOK, LockInv, OrderInv, [Next]_vars
  PROVE  OrderInv'
<1> USE DEF data
<1>p. Call \subseteq Process
  BY DEF Process
<1>1. ASSUME NEW c \in Call, ChunkWritten(c) PROVE OrderInv'
  <2>1. PICK s \in Session : s = proc[c].id /\ nextChunk[s] \in Nat /\ received[s] \in Nat
    BY <1>1, <1>p, ProcShapes DEF ChunkWritten, TypeOK
  <2>2. proc[c].index = nextChunk[s]
    BY <1>1, <1>p, <2>1 DEF ChunkWritten, LockInv, Checked
  <2>3. /\ scratch'[s] = Append(scratch[s], [chunk |-> nextChunk[s], whole |-> TRUE])
        /\ received'[s] = received[s] + 1 /\ nextChunk'[s] = nextChunk[s] + 1
        /\ \A t \in Session : t # s =>
             scratch'[t] = scratch[t] /\ received'[t] = received[t] /\ nextChunk'[t] = nextChunk[t]
    BY <1>1, <2>1, <2>2 DEF ChunkWritten, TypeOK
  <2>4. UNCHANGED <<declared, stored>>
    BY <1>1 DEF ChunkWritten
  <2>u. Unbroken(s)' => Unbroken(s)
    <3>1. scratch[s] \in Seq(Piece) /\ [chunk |-> nextChunk[s], whole |-> TRUE] \in Piece
      BY <2>1 DEF TypeOK, Piece
    <3> QED
      BY <2>3, <3>1, AppendProperties DEF Unbroken
  <2>5. received[s] = nextChunk[s] /\ (Unbroken(s) => scratch[s] = Whole(nextChunk[s]))
    BY <2>1 DEF OrderInv, ScratchInv
  <2>6. Unbroken(s) =>
          Append(scratch[s], [chunk |-> nextChunk[s], whole |-> TRUE]) = Whole(nextChunk[s] + 1)
    BY <2>1, <2>5, WholeGrows
  <2>o. \A t \in Session : t # s => (Unbroken(t)' <=> Unbroken(t))
    BY <2>3 DEF Unbroken
  <2>7. ScratchInv'
    BY <2>3, <2>5, <2>6, <2>u, <2>o DEF OrderInv, ScratchInv
  <2>8. StoredInOrder'
    BY <2>4, <2>u, <2>o DEF OrderInv, StoredInOrder
  <2> QED
    BY <2>7, <2>8 DEF OrderInv
<1>2. ASSUME NEW c \in Call, CompleteCreate(c) PROVE OrderInv'
  <2> DEFINE s == proc[c].id
  <2>1. s \in Session /\ c \in Process
    BY <1>2, <1>p, ProcShapes DEF CompleteCreate
  <2>2. received[s] = declared[s]
    BY <1>2, <2>1 DEF CompleteCreate, LockInv, Checked
  <2>3. Unbroken(s) => scratch[s] = Whole(declared[s])
    BY <2>1, <2>2 DEF OrderInv, ScratchInv
  <2>4. stored[s] \in Seq(Seq(Piece)) /\ scratch[s] \in Seq(Piece)
    BY <2>1 DEF TypeOK
  <2>5. /\ stored'[s] \in {stored[s], Append(stored[s], scratch[s])}
        /\ \A t \in Session : t # s => stored'[t] = stored[t]
    BY <1>2, <2>1 DEF CompleteCreate, TypeOK
  <2>6. UNCHANGED data
    BY <1>2 DEF CompleteCreate
  <2> HIDE DEF s
  <2>7. ASSUME Unbroken(s)
        PROVE  \A k \in DOMAIN stored'[s] : stored'[s][k] = Whole(declared[s])
    <3>1. CASE stored'[s] = stored[s]
      BY <2>1, <2>7, <3>1 DEF OrderInv, StoredInOrder
    <3>2. CASE stored'[s] = Append(stored[s], scratch[s])
      <4>1. \A k \in DOMAIN stored[s] : stored[s][k] = Whole(declared[s])
        BY <2>1, <2>7 DEF OrderInv, StoredInOrder
      <4> QED
        BY <2>3, <2>4, <2>7, <3>2, <4>1, AppendProperties
    <3> QED
      BY <2>5, <3>1, <3>2
  <2>8. StoredInOrder'
    BY <2>5, <2>6, <2>7 DEF OrderInv, StoredInOrder, Unbroken
  <2> QED
    BY <2>6, <2>8 DEF OrderInv, ScratchInv, Unbroken
<1>3. ASSUME NEW c \in Call, NEW s \in Session, NEW size \in 0..MaxChunk, InitiateUpload(c, s, size)
      PROVE  OrderInv'
  <2>1. stored[s] = <<>>
    BY <1>3 DEF InitiateUpload, LockInv, Unopened
  <2>2. /\ UNCHANGED <<stored, scratch, nextChunk, received>>
        /\ \A t \in Session : t # s => declared'[t] = declared[t]
    BY <1>3 DEF InitiateUpload, TypeOK
  <2> QED
    BY <2>1, <2>2 DEF OrderInv, ScratchInv, StoredInOrder, Unbroken
<1>4. CASE UNCHANGED <<data, stored>>
  BY <1>4 DEF OrderInv, ScratchInv, StoredInOrder, Unbroken
<1>5. ASSUME NEW c \in Call, ChunkFails(c) PROVE OrderInv'
  <2>1. PICK s \in Session, e \in Piece :
          s = proc[c].id /\ e = [chunk |-> proc[c].index, whole |-> FALSE]
    BY <1>5, <1>p, ProcShapes DEF ChunkFails, ChunkBusy, Piece
  <2>2. UNCHANGED <<declared, received, nextChunk, stored>>
    BY <1>5 DEF ChunkFails
  <2>3. CASE UNCHANGED scratch
    BY <2>2, <2>3 DEF OrderInv, ScratchInv, StoredInOrder, Unbroken
  <2>4. CASE scratch' = [scratch EXCEPT ![s] = Append(@, e)]
    <3>1. scratch[s] \in Seq(Piece)
      BY DEF TypeOK
    <3>2. scratch'[s] = Append(scratch[s], e)
      BY <2>1, <2>4 DEF TypeOK
    <3>3. ~Unbroken(s)'
      <4>1. /\ Len(scratch[s]) + 1 \in DOMAIN scratch'[s]
            /\ scratch'[s][Len(scratch[s]) + 1] = e
        BY <3>1, <3>2, AppendProperties, LenProperties
      <4> QED
        BY <2>1, <4>1 DEF Unbroken
    <3>4. \A t \in Session : t # s => (Unbroken(t)' <=> Unbroken(t)) /\ scratch'[t] = scratch[t]
      BY <2>1, <2>4 DEF TypeOK, Unbroken
    <3> QED
      BY <2>2, <3>3, <3>4 DEF OrderInv, ScratchInv, StoredInOrder
  <2> QED
    BY <1>5, <2>1, <2>3, <2>4 DEF ChunkFails
<1>6. ASSUME NEW c \in Call, NEW s \in Session,
             \/ \E i \in 0..(MaxChunk - 1) : ChunkGet(c, s, i)
             \/ CompleteGet(c, s) \/ AbortGet(c, s)
      PROVE  UNCHANGED <<data, stored>>
  BY <1>6 DEF ChunkGet, CompleteGet, AbortGet, Found
<1>7. ASSUME NEW c \in Call, ChunkLock(c) \/ CompleteLock(c) PROVE UNCHANGED <<data, stored>>
  BY <1>7 DEF ChunkLock, CompleteLock
<1>8. ASSUME \/ \E p \in Process : Run(p)
             \/ \E s \in Session : Expire(s)
             \/ Restart
             \/ UNCHANGED vars
      PROVE  UNCHANGED <<data, stored>>
  BY <1>8 DEF Run, RemoveEntry, CloseFile, Expire, Restart, vars
<1> QED
  BY <1>1, <1>2, <1>3, <1>4, <1>5, <1>6, <1>7, <1>8 DEF Next, Request, Serve

\* Whatever calls race on a session, every file it stores is the declared
\* chunks, each once and in order, unless a body has broken off in it.
THEOREM InOrder == Spec => []StoredInOrder
<1>1. Init => TypeOK /\ LockInv /\ OrderInv
  <2>1. Whole(0) = <<>>
    BY DEF Whole
  <2>2. Init => OrderInv
    BY <2>1 DEF Init, OrderInv, ScratchInv, StoredInOrder
  <2> QED
    BY <2>2, TypeInit, LockInit
<1>2. TypeOK /\ LockInv /\ OrderInv /\ [Next]_vars => TypeOK' /\ LockInv' /\ OrderInv'
  BY TypeNext, LockNext, OrderNext
<1>3. OrderInv => StoredInOrder
  BY DEF OrderInv
<1> QED
  BY <1>1, <1>2, <1>3, PTL DEF Spec

-----------------------------------------------------------------------------
(* Scratch files *)

\* A remove about to close a file has taken its session out of the map, and a
\* timer runs only for a file this server process opened.
FileInv ==
  /\ ScratchAccountedFor
  /\ \A p \in Process : proc[p].pc = "close" => proc[p].id \notin sessions
  /\ \A s \in Session : expireAt[s] = "armed" => file[s] \in {"open", "removed"}

\* A step that opens and removes nothing, leaves every close under way and
\* takes up no session a restart has cut off.
LEMMA FileQuiet ==
  ASSUME FileInv, UNCHANGED <<sessions, file>>, NEW p \in Process,
         \A o \in Process : o # p => proc'[o] = proc[o],
         proc[p].pc # "close",
         proc'[p] = Idle \/ (proc'[p].pc # "close" /\ file[proc'[p].id] # "left"),
         \A s \in Session : expireAt'[s] = "armed" => expireAt[s] = "armed" \/ file[s] = "open"
  PROVE  FileInv'
<1>1. Idle.pc # "close"
  BY DEF Idle
<1> QED
  BY <1>1 DEF FileInv, ScratchAccountedFor

LEMMA FileNext ==
  ASSUME TypeOK, LockInv, FileInv, [Next]_vars
  PROVE  FileInv'
<1>p. Call \subseteq Process /\ Session \subseteq Process
  BY DEF Process
<1>i. Idle.pc = "idle"
  BY DEF Idle
<1>l. \A p \in Process : proc[p] # Idle => file[proc[p].id] # "left" /\ proc[p].id \in Session
  <2>1. \A p \in Process : proc[p] # Idle => proc[p].id \in Session
    BY ProcShapes
  <2> QED
    BY <2>1 DEF FileInv, ScratchAccountedFor
<1>1. ASSUME NEW c \in Call, NEW s \in Session, NEW size \in 0..MaxChunk, InitiateUpload(c, s, size)
      PROVE  FileInv'
  <2>1. /\ sessions' = sessions \cup {s} /\ proc' = proc
        /\ file'[s] = "open" /\ \A t \in Session : t # s => file'[t] = file[t]
        /\ \A t \in Session : t # s => expireAt'[t] = expireAt[t]
    BY <1>1 DEF InitiateUpload, TypeOK
  <2>2. \A p \in Process : proc[p].pc = "close" => proc[p].id # s
    BY <1>1 DEF InitiateUpload, LockInv, Unopened
  <2> QED
    BY <2>1, <2>2 DEF FileInv, ScratchAccountedFor
<1>2. ASSUME NEW c \in Call, NEW s \in Session,
             \/ \E i \in 0..(MaxChunk - 1) : ChunkGet(c, s, i)
             \/ CompleteGet(c, s) \/ AbortGet(c, s)
      PROVE  FileInv'
  <2>1. /\ \A p \in Process : p # c => proc'[p] = proc[p]
        /\ proc'[c].pc # "close" /\ proc'[c].id = s
    BY <1>2, <1>p DEF ChunkGet, CompleteGet, AbortGet, Goto, TypeOK
  <2>2. UNCHANGED <<sessions, file, expireAt>> /\ proc[c].pc = "idle" /\ file[s] = "open"
    BY <1>2, <1>i DEF ChunkGet, CompleteGet, AbortGet, Found, FileInv, ScratchAccountedFor
  <2> QED
    BY <1>p, <2>1, <2>2, FileQuiet
<1>3. ASSUME NEW c \in Call, Serve(c) PROVE FileInv'
  <2>1. \A p \in Process : p # c => proc'[p] = proc[p]
    BY <1>3 DEF Serve, ChunkLock, ChunkWritten, ChunkFails, CompleteLock, CompleteCreate,
       Return, Goto, TypeOK
  <2>2. UNCHANGED <<sessions, file>> /\ proc[c].pc \notin {"idle", "close"}
    BY <1>3 DEF Serve, ChunkLock, ChunkWritten, ChunkFails, CompleteLock, CompleteCreate
  <2>3. \A s \in Session : expireAt'[s] = "armed" => expireAt[s] = "armed" \/ file[s] = "open"
    BY <1>3 DEF Serve, ChunkLock, ChunkWritten, ChunkFails, CompleteLock, CompleteCreate, TypeOK
  <2>4. proc'[c] = Idle \/ (proc'[c].pc # "close" /\ proc'[c].id = proc[c].id)
    <3>1. CASE ChunkWritten(c) \/ ChunkFails(c)
      BY <1>p, <3>1 DEF ChunkWritten, ChunkFails, Return, Goto, TypeOK
    <3>2. CASE ChunkLock(c)
      <4>1. proc[c] \in ChunkBusy
        BY <1>p, <3>2, ProcShapes DEF ChunkLock
      <4>2. [proc[c] EXCEPT !.pc = "chunkCopy"].pc = "chunkCopy"
            /\ [proc[c] EXCEPT !.pc = "chunkCopy"].id = proc[c].id
        BY <4>1 DEF ChunkBusy
      <4>3. proc'[c] = Idle \/ proc'[c] = [proc[c] EXCEPT !.pc = "chunkCopy"]
        BY <1>p, <3>2 DEF ChunkLock, Return, Goto, TypeOK
      <4> QED
        BY <4>2, <4>3
    <3>3. CASE CompleteLock(c) \/ CompleteCreate(c)
      <4>1. proc[c] \in OtherBusy
        BY <1>p, <3>3, ProcShapes DEF CompleteLock, CompleteCreate
      <4>2. \A pc \in {"completeCreate", "remove"} :
              /\ [proc[c] EXCEPT !.pc = pc].pc = pc
              /\ [proc[c] EXCEPT !.pc = pc].id = proc[c].id
        BY <4>1 DEF OtherBusy
      <4>3. \E pc \in {"completeCreate", "remove"} : proc'[c] = [proc[c] EXCEPT !.pc = pc]
        BY <1>p, <3>3 DEF CompleteLock, CompleteCreate, Goto, TypeOK
      <4> QED
        BY <4>2, <4>3
    <3> QED
      BY <1>3, <3>1, <3>2, <3>3 DEF Serve
  <2>5. file[proc[c].id] # "left"
    BY <1>i, <1>l, <1>p, <2>2
  <2> QED
    BY <1>p, <2>1, <2>2, <2>3, <2>4, <2>5, FileQuiet
<1>4. ASSUME NEW s \in Session, Expire(s) PROVE FileInv'
  <2>1. /\ \A p \in Process : p # s => proc'[p] = proc[p]
        /\ proc'[s].pc # "close" /\ proc'[s].id = s
        /\ \A t \in Session : expireAt'[t] = "armed" => expireAt[t] = "armed"
    BY <1>4, <1>p DEF Expire, Goto, TypeOK
  <2>2. UNCHANGED <<sessions, file>> /\ proc[s].pc = "idle" /\ file[s] # "left"
    BY <1>4, <1>i DEF Expire, FileInv
  <2> QED
    BY <1>p, <2>1, <2>2, FileQuiet
<1>5. ASSUME NEW p \in Process, RemoveEntry(p) PROVE FileInv'
  <2>1. proc[p] \in OtherBusy /\ proc[p].pc = "remove" /\ file' = file
    BY <1>5, ProcShapes DEF RemoveEntry
  <2>2. \A o \in Process : o # p => proc'[o] = proc[o]
    BY <1>5 DEF RemoveEntry, Return, Goto, TypeOK
  <2>3. CASE proc[p].id \notin sessions
    <3>1. proc'[p] = Idle /\ UNCHANGED <<sessions, expireAt>>
      BY <1>5, <2>3 DEF RemoveEntry, Return, Goto, TypeOK
    <3> QED
      BY <2>1, <2>2, <3>1, FileQuiet
  <2>4. CASE proc[p].id \in sessions
    <3>1. sessions' = sessions \ {proc[p].id}
      BY <1>5, <2>4 DEF RemoveEntry
    <3>2. proc'[p].pc = "close" /\ proc'[p].id = proc[p].id
      BY <1>5, <2>1, <2>4 DEF RemoveEntry, Goto, TypeOK, OtherBusy
    <3>3. file[proc[p].id] = "open"
      BY <2>4, <2>1 DEF FileInv, ScratchAccountedFor, OtherBusy
    <3>4. \A s \in Session : expireAt'[s] = "armed" => expireAt[s] = "armed"
      BY <1>5, <2>4 DEF RemoveEntry, TypeOK
    <3> QED
      BY <2>1, <2>2, <3>1, <3>2, <3>3, <3>4 DEF FileInv, ScratchAccountedFor
  <2> QED
    BY <2>3, <2>4
<1>6. ASSUME NEW p \in Process, CloseFile(p) PROVE FileInv'
  <2>1. /\ UNCHANGED <<sessions, expireAt>>
        /\ proc[p].pc = "close" /\ proc[p].id \in Session
        /\ file'[proc[p].id] = "removed"
        /\ \A s \in Session : s # proc[p].id => file'[s] = file[s]
        /\ proc'[p] = Idle /\ \A o \in Process : o # p => proc'[o] = proc[o]
    BY <1>6, ProcShapes DEF CloseFile, Return, Goto, TypeOK
  <2>2. proc[p].id \notin sessions
    BY <2>1 DEF FileInv
  <2> QED
    BY <1>i, <2>1, <2>2 DEF FileInv, ScratchAccountedFor
<1>7. ASSUME Restart PROVE FileInv'
  <2>1. /\ sessions' = {} /\ \A p \in Process : proc'[p] = Idle
        /\ \A s \in Session : file'[s] # "open" /\ expireAt'[s] = "none"
    BY <1>7 DEF Restart
  <2> QED
    BY <1>i, <2>1 DEF FileInv, ScratchAccountedFor
<1>8. CASE UNCHANGED vars
  BY <1>8 DEF vars, FileInv, ScratchAccountedFor
<1> QED
  BY <1>1, <1>2, <1>3, <1>4, <1>5, <1>6, <1>7, <1>8 DEF Next, Request, Run

\* However calls, timers, removes and restarts meet, the scratch file the server
\* has open is in the map's care or in the hands of the one remove that will
\* unlink it, and nothing ever works on a file a restart has left behind.
THEOREM ScratchTended == Spec => []ScratchAccountedFor
<1>1. Init => TypeOK /\ LockInv /\ FileInv
  <2>1. Init => FileInv
    BY DEF Init, FileInv, ScratchAccountedFor, Idle
  <2> QED
    BY <2>1, TypeInit, LockInit
<1>2. TypeOK /\ LockInv /\ FileInv /\ [Next]_vars => TypeOK' /\ LockInv' /\ FileInv'
  BY TypeNext, LockNext, FileNext
<1>3. FileInv => ScratchAccountedFor
  BY DEF FileInv
<1> QED
  BY <1>1, <1>2, <1>3, PTL DEF Spec
=============================================================================
