--------------------------- MODULE DriveViewProofs ---------------------------
(* The file table and the upload batches of the web client, for any number   *)
(* of batches, files and views and any faults: what becomes of the files and *)
(* the sessions of a batch, and what the table settles on.                   *)
EXTENDS DriveView, TLAPS

Attempting == {"single", "initiate", "chunk", "complete", "abort"}

\* A batch, with or without files on the user's computer.
BatchShape == [pc: {"idle", "next"} \cup Attempting, files: SUBSET File, left: SUBSET File,
               file: File \cup {NoBatch.file}, session: Nat, chunk: Nat,
               failures: SUBSET File, created: SUBSET File]

Shaped == clock \in Nat /\ batch \in [Batch -> BatchShape]

\* Every file of a batch is done with, at hand or still to come.
Placed(q) ==
  q.files = q.created \cup q.failures \cup q.left
              \cup (IF q.pc \in Attempting THEN {q.file} ELSE {})

AllPlaced == \A b \in Batch : Placed(batch[b])

\* Work of one batch leaves the others as they are.
OnlyBatch(b) == \A o \in Batch : o # b => batch'[o] = batch[o]

-----------------------------------------------------------------------------
LEMMA BatchInit == Init => Shaped /\ AllPlaced /\ SessionsFreed
<1> SUFFICES ASSUME Init PROVE Shaped /\ AllPlaced /\ SessionsFreed
  OBVIOUS
<1>1. Len(Initially) \in Nat
  BY DriveViewAssumption
<1>2. NoBatch \in BatchShape /\ Placed(NoBatch)
  BY DEF NoBatch, BatchShape, Placed, Attempting
<1> QED
  BY <1>1, <1>2 DEF Init, Shaped, AllPlaced, SessionsFreed

\* The parts of the invariant are about one batch and the sessions.
LEMMA OneBatch ==
  ASSUME Shaped, AllPlaced, SessionsFreed, NEW b \in Batch, OnlyBatch(b),
         batch' = [batch EXCEPT ![b] = batch'[b]], clock' \in Nat,
         batch'[b] \in BatchShape, Placed(batch'[b]),
         \A s \in sessions' \ orphaned' :
           \/ s \in sessions \ orphaned
                /\ (batch[b].session = s => batch[b].pc \notin {"chunk", "complete", "abort"})
           \/ batch'[b].session = s /\ batch'[b].pc \in {"chunk", "complete", "abort"}
  PROVE  Shaped' /\ AllPlaced' /\ SessionsFreed'
<1>1. Shaped'
  BY DEF Shaped
<1>2. AllPlaced'
  BY DEF AllPlaced, OnlyBatch
<1>3. ASSUME NEW s \in sessions' \ orphaned'
      PROVE  \E o \in Batch : batch'[o].session = s
                                /\ batch'[o].pc \in {"chunk", "complete", "abort"}
  <2>1. CASE batch'[b].session = s /\ batch'[b].pc \in {"chunk", "complete", "abort"}
    BY <2>1
  <2>2. CASE /\ s \in sessions \ orphaned
             /\ batch[b].session = s => batch[b].pc \notin {"chunk", "complete", "abort"}
    <3>1. PICK o \in Batch : batch[o].session = s
                               /\ batch[o].pc \in {"chunk", "complete", "abort"}
      BY <2>2 DEF SessionsFreed
    <3> QED
      BY <2>2, <3>1 DEF OnlyBatch
  <2> QED
    BY <1>3, <2>1, <2>2
<1> QED
  BY <1>1, <1>2, <1>3 DEF SessionsFreed

\* A batch after a step, field by field.
Moved(q, pc, left, file, session, chunk, failures, created) ==
  [pc |-> pc, files |-> q.files, left |-> left, file |-> file, session |-> session,
   chunk |-> chunk, failures |-> failures, created |-> created]

LEMMA MovedShape ==
  ASSUME NEW q \in BatchShape, NEW pc \in {"idle", "next"} \cup Attempting,
         NEW left \in SUBSET File, NEW file \in File \cup {NoBatch.file},
         NEW session \in Nat, NEW chunk \in Nat,
         NEW failures \in SUBSET File, NEW created \in SUBSET File
  PROVE  Moved(q, pc, left, file, session, chunk, failures, created) \in BatchShape
  BY DEF Moved, BatchShape

\* A batch is its fields, whichever of them a step replaces.
LEMMA ReplacedPc ==
  ASSUME NEW q \in BatchShape, NEW pc
  PROVE  [q EXCEPT !.pc = pc] =
           Moved(q, pc, q.left, q.file, q.session, q.chunk, q.failures, q.created)
  BY DEF BatchShape, Moved

LEMMA ReplacedChunk ==
  ASSUME NEW q \in BatchShape, NEW pc, NEW chunk
  PROVE  [q EXCEPT !.chunk = chunk, !.pc = pc] =
           Moved(q, pc, q.left, q.file, q.session, chunk, q.failures, q.created)
<1> DEFINE r == [q EXCEPT !.chunk = chunk]
<1>1. r = Moved(q, q.pc, q.left, q.file, q.session, chunk, q.failures, q.created)
  BY DEF BatchShape, Moved
<1>2. [q EXCEPT !.chunk = chunk, !.pc = pc] = [r EXCEPT !.pc = pc]
  OBVIOUS
<1> HIDE DEF r
<1> QED
  BY <1>1, <1>2 DEF Moved

LEMMA ReplacedSession ==
  ASSUME NEW q \in BatchShape, NEW pc, NEW session
  PROVE  [q EXCEPT !.pc = pc, !.session = session] =
           Moved(q, pc, q.left, q.file, session, q.chunk, q.failures, q.created)
<1> DEFINE r == [q EXCEPT !.pc = pc]
<1>1. r = Moved(q, pc, q.left, q.file, q.session, q.chunk, q.failures, q.created)
  BY DEF BatchShape, Moved
<1>2. [q EXCEPT !.pc = pc, !.session = session] = [r EXCEPT !.session = session]
  OBVIOUS
<1> HIDE DEF r
<1> QED
  BY <1>1, <1>2 DEF Moved

LEMMA ReplacedCreated ==
  ASSUME NEW q \in BatchShape, NEW pc, NEW X
  PROVE  [q EXCEPT !.pc = pc, !.created = X] =
           Moved(q, pc, q.left, q.file, q.session, q.chunk, q.failures, X)
<1> DEFINE r == [q EXCEPT !.pc = pc]
<1>1. r = Moved(q, pc, q.left, q.file, q.session, q.chunk, q.failures, q.created)
  BY DEF BatchShape, Moved
<1>2. [q EXCEPT !.pc = pc, !.created = X] = [r EXCEPT !.created = X]
  OBVIOUS
<1> HIDE DEF r
<1> QED
  BY <1>1, <1>2 DEF Moved

LEMMA ReplacedFailures ==
  ASSUME NEW q \in BatchShape, NEW pc, NEW X
  PROVE  [q EXCEPT !.pc = pc, !.failures = X] =
           Moved(q, pc, q.left, q.file, q.session, q.chunk, X, q.created)
<1> DEFINE r == [q EXCEPT !.pc = pc]
<1>1. r = Moved(q, pc, q.left, q.file, q.session, q.chunk, q.failures, q.created)
  BY DEF BatchShape, Moved
<1>2. [q EXCEPT !.pc = pc, !.failures = X] = [r EXCEPT !.failures = X]
  OBVIOUS
<1> HIDE DEF r
<1> QED
  BY <1>1, <1>2 DEF Moved

\* What the upload of a file ends with: it is created or has failed.
LEMMA Outcomes ==
  ASSUME Shaped, AllPlaced, NEW b \in Batch, batch[b].pc \in Attempting,
         Succeeded(b) \/ Failed(b)
  PROVE  /\ OnlyBatch(b) /\ batch' = [batch EXCEPT ![b] = batch'[b]]
         /\ batch'[b] \in BatchShape /\ Placed(batch'[b]) /\ batch'[b].pc = "next"
<1> DEFINE q == batch[b]
<1>1. q \in BatchShape /\ Placed(q)
  BY DEF Shaped, AllPlaced
<1>2. /\ q.files \in SUBSET File /\ q.left \in SUBSET File /\ q.file \in File \cup {NoBatch.file}
      /\ q.session \in Nat /\ q.chunk \in Nat
      /\ q.failures \in SUBSET File /\ q.created \in SUBSET File
  BY <1>1 DEF BatchShape
<1>3. q.file \in File /\ q.files = q.created \cup q.failures \cup q.left \cup {q.file}
  BY <1>1, <1>2 DEF Placed
<1>4. /\ OnlyBatch(b) /\ batch' = [batch EXCEPT ![b] = batch'[b]]
      /\ \/ batch'[b] = [q EXCEPT !.pc = "next", !.created = q.created \cup {q.file}]
         \/ batch'[b] = [q EXCEPT !.pc = "next", !.failures = q.failures \cup {q.file}]
  BY DEF Shaped, OnlyBatch, Succeeded, Failed
<1> HIDE DEF q
<1>5. PICK failures \in SUBSET File, created \in SUBSET File :
        /\ batch'[b] = Moved(q, "next", q.left, q.file, q.session, q.chunk, failures, created)
        /\ failures \cup created = q.failures \cup q.created \cup {q.file}
  <2>1. CASE batch'[b] = [q EXCEPT !.pc = "next", !.created = q.created \cup {q.file}]
    <3> DEFINE X == q.created \cup {q.file}
    <3>1. batch'[b] = [q EXCEPT !.pc = "next", !.created = X]
      BY <2>1
    <3>2. X \in SUBSET File
      BY <1>2, <1>3
    <3> HIDE DEF X
    <3>3. batch'[b] = Moved(q, "next", q.left, q.file, q.session, q.chunk, q.failures, X)
      BY <1>1, <3>1, ReplacedCreated
    <3> QED
      BY <1>2, <3>2, <3>3 DEF X
  <2>2. CASE batch'[b] = [q EXCEPT !.pc = "next", !.failures = q.failures \cup {q.file}]
    <3>1. batch'[b] = Moved(q, "next", q.left, q.file, q.session, q.chunk,
                            q.failures \cup {q.file}, q.created)
      BY <1>1, <2>2, ReplacedFailures
    <3> QED
      BY <1>2, <1>3, <3>1
  <2> QED
    BY <1>4, <2>1, <2>2
<1>6. batch'[b] \in BatchShape
  BY <1>1, <1>2, <1>5, MovedShape
<1>7. batch'[b].pc = "next" /\ Placed(batch'[b])
  BY <1>3, <1>5 DEF Moved, Placed, Attempting
<1> QED
  BY <1>4, <1>6, <1>7

\* Going on with the file at hand.
LEMMA GoesOn ==
  ASSUME Shaped, AllPlaced, NEW b \in Batch, batch[b].pc \in Attempting,
         NEW pc \in Attempting, NEW session \in Nat, NEW chunk \in Nat, OnlyBatch(b),
         batch' = [batch EXCEPT ![b] = batch'[b]],
         batch'[b] = Moved(batch[b], pc, batch[b].left, batch[b].file, session, chunk,
                           batch[b].failures, batch[b].created)
  PROVE  /\ batch'[b] \in BatchShape /\ Placed(batch'[b])
         /\ batch'[b].pc = pc /\ batch'[b].session = session
<1> DEFINE q == batch[b]
<1>1. q \in BatchShape /\ Placed(q)
  BY DEF Shaped, AllPlaced
<1>2. /\ q.left \in SUBSET File /\ q.file \in File \cup {NoBatch.file}
      /\ q.failures \in SUBSET File /\ q.created \in SUBSET File
  BY <1>1 DEF BatchShape
<1>3. pc \in {"idle", "next"} \cup Attempting
  OBVIOUS
<1>4. batch'[b] = Moved(q, pc, q.left, q.file, session, chunk, q.failures, q.created)
  OBVIOUS
<1> HIDE DEF q
<1>5. batch'[b] \in BatchShape
  BY <1>1, <1>2, <1>3, <1>4 DEF Moved, BatchShape
<1> QED
  BY <1>1, <1>4, <1>5 DEF Moved, Placed, q

LEMMA GoesTo ==
  ASSUME Shaped, AllPlaced, NEW b \in Batch, batch[b].pc \in Attempting,
         NEW pc \in Attempting, Go(b, pc)
  PROVE  /\ OnlyBatch(b) /\ batch' = [batch EXCEPT ![b] = batch'[b]]
         /\ batch'[b] \in BatchShape /\ Placed(batch'[b])
         /\ batch'[b].pc = pc /\ batch'[b].session = batch[b].session
<1>1. batch[b].session \in Nat /\ batch[b].chunk \in Nat /\ batch[b] \in BatchShape
  BY DEF Shaped, BatchShape
<1>2. /\ OnlyBatch(b) /\ batch' = [batch EXCEPT ![b] = batch'[b]]
      /\ batch'[b] = [batch[b] EXCEPT !.pc = pc]
  BY DEF Go, Shaped, OnlyBatch
<1>3. batch'[b] = Moved(batch[b], pc, batch[b].left, batch[b].file, batch[b].session,
                        batch[b].chunk, batch[b].failures, batch[b].created)
  BY <1>1, <1>2, ReplacedPc
<1> QED
  BY <1>1, <1>2, <1>3, GoesOn

-----------------------------------------------------------------------------
(* The steps of a batch *)

Work == Shaped /\ AllPlaced /\ SessionsFreed

LEMMA Starts ==
  ASSUME Work, NEW b \in Batch, NEW S \in SUBSET File, StartUpload(b, S)
  PROVE  Work'
<1> DEFINE q == [NoBatch EXCEPT !.pc = "next", !.files = S, !.left = S]
<1>1. q.pc = "next" /\ q \in BatchShape /\ Placed(q)
  BY DEF NoBatch, BatchShape, Placed, Attempting
<1>2. /\ batch' = [batch EXCEPT ![b] = q] /\ UNCHANGED <<sessions, orphaned, clock>>
      /\ batch[b].pc = "idle"
  BY DEF StartUpload, NoBatch, server
<1> HIDE DEF q
<1>3. batch'[b] = q /\ OnlyBatch(b) /\ clock' \in Nat
  BY <1>2 DEF Work, Shaped, OnlyBatch
<1> QED
  BY <1>1, <1>2, <1>3, OneBatch DEF Work

LEMMA TakesFile ==
  ASSUME Work, NEW b \in Batch, NextFile(b)
  PROVE  Work'
<1> DEFINE q == batch[b]
<1>1. q \in BatchShape /\ Placed(q) /\ q.pc = "next"
  BY DEF Work, Shaped, AllPlaced, NextFile
<1>2. PICK f \in q.left, pc \in {"initiate", "single"} :
        batch' = [batch EXCEPT ![b].pc = pc, ![b].file = f, ![b].left = @ \ {f},
                               ![b].session = 0, ![b].chunk = 0]
  BY DEF NextFile
<1>3. /\ OnlyBatch(b) /\ batch' = [batch EXCEPT ![b] = batch'[b]]
      /\ batch'[b] = [q EXCEPT !.pc = pc, !.file = f, !.left = q.left \ {f},
                               !.session = 0, !.chunk = 0]
  BY <1>2 DEF Work, Shaped, OnlyBatch
<1>4. UNCHANGED <<sessions, orphaned, clock>> /\ clock \in Nat
  BY DEF NextFile, server, watch, Work, Shaped
<1> HIDE DEF q
<1>5. batch'[b] = Moved(q, pc, q.left \ {f}, f, 0, 0, q.failures, q.created)
  <2> DEFINE r == [q EXCEPT !.pc = pc]
             t == [r EXCEPT !.file = f]
             u == [t EXCEPT !.left = q.left \ {f}]
             v == [u EXCEPT !.session = 0]
  <2>1. r = Moved(q, pc, q.left, q.file, q.session, q.chunk, q.failures, q.created)
    BY <1>1, ReplacedPc
  <2>2. batch'[b] = [v EXCEPT !.chunk = 0]
    BY <1>3
  <2> HIDE DEF r
  <2>3. t = Moved(q, pc, q.left, f, q.session, q.chunk, q.failures, q.created)
    BY <2>1 DEF Moved
  <2> HIDE DEF t
  <2>4. u = Moved(q, pc, q.left \ {f}, f, q.session, q.chunk, q.failures, q.created)
    BY <2>3 DEF Moved
  <2> HIDE DEF u
  <2>5. v = Moved(q, pc, q.left \ {f}, f, 0, q.chunk, q.failures, q.created)
    BY <2>4 DEF Moved
  <2> HIDE DEF v
  <2> QED
    BY <2>2, <2>5 DEF Moved
<1>6. /\ q.left \in SUBSET File /\ f \in File /\ q.left \ {f} \in SUBSET File
      /\ q.failures \in SUBSET File /\ q.created \in SUBSET File /\ q.files \in SUBSET File
  BY <1>1, <1>2 DEF BatchShape
<1>7. batch'[b] \in BatchShape
  <2> DEFINE L == q.left \ {f}
  <2>1. /\ batch'[b] = Moved(q, pc, L, f, 0, 0, q.failures, q.created)
        /\ L \in SUBSET File /\ f \in File \cup {NoBatch.file} /\ 0 \in Nat
        /\ pc \in {"idle", "next"} \cup Attempting
    BY <1>2, <1>5, <1>6 DEF Attempting
  <2> HIDE DEF L
  <2> QED
    BY <1>6, <2>1 DEF Moved, BatchShape
<1>8. Placed(batch'[b])
  <2>1. q.files = q.created \cup q.failures \cup q.left
    BY <1>1 DEF Placed, Attempting
  <2>2. q.left = (q.left \ {f}) \cup {f} /\ pc \in Attempting
    BY <1>2 DEF Attempting
  <2>3. /\ batch'[b].files = q.files /\ batch'[b].created = q.created
        /\ batch'[b].failures = q.failures /\ batch'[b].left = q.left \ {f}
        /\ batch'[b].file = f /\ batch'[b].pc = pc
    BY <1>5 DEF Moved
  <2>4. q.files = q.created \cup q.failures \cup (q.left \ {f}) \cup {f}
    BY <2>1, <2>2
  <2> QED
    BY <2>2, <2>3, <2>4 DEF Placed
<1> QED
  BY <1>1, <1>3, <1>4, <1>7, <1>8, OneBatch DEF Work, q

LEMMA SingleShot ==
  ASSUME Work, NEW b \in Batch, uploadSingleShot(b)
  PROVE  Work'
<1>1. batch[b].pc = "single" /\ (Succeeded(b) \/ Failed(b))
      /\ clock' \in Nat /\ UNCHANGED <<sessions, orphaned>>
  BY DEF uploadSingleShot, Created, Work, Shaped
<1> QED
  BY <1>1, Outcomes, OneBatch DEF Work, Attempting

LEMMA Initiates ==
  ASSUME Work, NEW b \in Batch, initiateUpload(b)
  PROVE  Work'
<1> DEFINE s == clock + 1
<1>1. batch[b].pc = "initiate" /\ s \in Nat /\ clock' \in Nat
  BY DEF initiateUpload, Work, Shaped
<1>2. CASE Failed(b) /\ sessions' \ orphaned' \subseteq sessions \ orphaned
  BY <1>1, <1>2, Outcomes, OneBatch DEF Work, Attempting
<1>3. CASE /\ batch' = [batch EXCEPT ![b].pc = "chunk", ![b].session = s]
           /\ sessions' = sessions \cup {s} /\ orphaned' = orphaned
  <2> DEFINE q == batch[b]
  <2>1. q \in BatchShape /\ q.chunk \in Nat
    BY DEF Work, Shaped, BatchShape
  <2>2. /\ OnlyBatch(b) /\ batch' = [batch EXCEPT ![b] = batch'[b]]
        /\ batch'[b] = [q EXCEPT !.pc = "chunk", !.session = s]
    BY <1>3 DEF Work, Shaped, OnlyBatch
  <2> HIDE DEF q, s
  <2>3. batch'[b] = Moved(q, "chunk", q.left, q.file, s, q.chunk, q.failures, q.created)
    BY <2>1, <2>2, ReplacedSession
  <2>4. /\ batch'[b] \in BatchShape /\ Placed(batch'[b])
        /\ batch'[b].pc = "chunk" /\ batch'[b].session = s
    BY <1>1, <2>1, <2>2, <2>3, GoesOn DEF Work, Attempting, q
  <2> QED
    BY <1>1, <1>3, <2>2, <2>4, OneBatch DEF Work
<1> QED
  BY <1>2, <1>3 DEF initiateUpload

LEMMA SendsChunk ==
  ASSUME Work, NEW b \in Batch, uploadChunk(b)
  PROVE  Work'
<1> DEFINE q == batch[b]  k == q.chunk + 1
<1>1. /\ q.pc = "chunk" /\ q \in BatchShape /\ q.session \in Nat /\ k \in Nat
      /\ UNCHANGED <<sessions, orphaned, clock>> /\ clock \in Nat
  BY DEF uploadChunk, server, Work, Shaped, BatchShape
<1>2. CASE Go(b, "abort")
  BY <1>1, <1>2, GoesTo, OneBatch DEF Work, Attempting
<1>3. CASE \E pc \in {"complete", "chunk"} : batch' = [batch EXCEPT ![b].chunk = k, ![b].pc = pc]
  <2>1. PICK pc \in {"complete", "chunk"} : batch' = [batch EXCEPT ![b].chunk = k, ![b].pc = pc]
    BY <1>3
  <2>2. /\ OnlyBatch(b) /\ batch' = [batch EXCEPT ![b] = batch'[b]]
        /\ batch'[b] = [q EXCEPT !.chunk = k, !.pc = pc]
    BY <2>1 DEF Work, Shaped, OnlyBatch
  <2> HIDE DEF q, k
  <2>3. batch'[b] = Moved(q, pc, q.left, q.file, q.session, k, q.failures, q.created)
    BY <1>1, <2>2, ReplacedChunk
  <2>4. /\ batch'[b] \in BatchShape /\ Placed(batch'[b])
        /\ batch'[b].pc = pc /\ batch'[b].session = q.session
    BY <1>1, <2>2, <2>3, GoesOn DEF Work, Attempting, q
  <2> QED
    BY <1>1, <2>2, <2>4, OneBatch DEF Work, q
<1> QED
  BY <1>2, <1>3 DEF uploadChunk

LEMMA Completes ==
  ASSUME Work, NEW b \in Batch, completeUpload(b)
  PROVE  Work'
<1>1. /\ batch[b].pc = "complete" /\ clock' \in Nat /\ orphaned' = orphaned
      /\ sessions' \subseteq sessions
  BY DEF completeUpload, Created, server, Work, Shaped
<1>2. CASE Go(b, "abort")
  BY <1>1, <1>2, GoesTo, OneBatch DEF Work, Attempting
<1>3. CASE Succeeded(b) /\ sessions' = sessions \ {batch[b].session}
  BY <1>1, <1>3, Outcomes, OneBatch DEF Work, Attempting
<1> QED
  BY <1>2, <1>3 DEF completeUpload

LEMMA Aborts ==
  ASSUME Work, NEW b \in Batch, abortUpload(b)
  PROVE  Work'
<1>1. /\ batch[b].pc = "abort" /\ Failed(b) /\ clock' = clock /\ clock \in Nat
      /\ sessions' \ orphaned' = (sessions \ orphaned) \ {batch[b].session}
  BY DEF abortUpload, Work, Shaped
<1> QED
  BY <1>1, Outcomes, OneBatch DEF Work, Attempting

LEMMA Ends ==
  ASSUME Work, NEW b \in Batch, EndUpload(b)
  PROVE  Work'
<1>1. NoBatch.pc = "idle" /\ NoBatch \in BatchShape /\ Placed(NoBatch)
  BY DEF NoBatch, BatchShape, Placed, Attempting
<1>2. /\ batch[b].pc = "next" /\ batch' = [batch EXCEPT ![b] = NoBatch]
      /\ UNCHANGED <<sessions, orphaned, clock>>
  BY DEF EndUpload, server, watch
<1>3. batch'[b] = NoBatch /\ OnlyBatch(b) /\ clock' \in Nat
  BY <1>2 DEF Work, Shaped, OnlyBatch
<1> QED
  BY <1>1, <1>2, <1>3, OneBatch DEF Work

\* The steps that are not a batch's leave the batches alone.
LEMMA TableSteps ==
  ASSUME [Next]_vars
  PROVE  \/ \E b \in Batch : Upload(b) \/ \E S \in SUBSET File : StartUpload(b, S)
         \/ /\ UNCHANGED <<batch, orphaned, clock>>
            /\ UNCHANGED sessions \/ \E s \in sessions : sessions' = sessions \ {s}
<1> DEFINE Elsewhere == /\ UNCHANGED <<batch, orphaned, clock>>
                        /\ UNCHANGED sessions \/ \E s \in sessions : sessions' = sessions \ {s}
<1>1. ASSUME NEW s \in sessions, Expire(s) PROVE Elsewhere
  BY <1>1 DEF Expire
<1>2. ASSUME NEW v \in View, PageServed(v) \/ PageAnswered(v) \/ FetchFails(v) \/ SwitchView(v)
      PROVE  Elsewhere
  BY <1>2 DEF PageServed, PageAnswered, FetchFails, SwitchView, server, watch
<1>3. ASSUME NextPage \/ Focus \/ UNCHANGED vars PROVE Elsewhere
  BY <1>3 DEF NextPage, Focus, vars, server, watch
<1>4. ASSUME NEW r, handleDelete(r) PROVE Elsewhere
  BY <1>4 DEF handleDelete, server
<1>5. ASSUME NEW i, DeleteServed(i) \/ DeleteAnswered(i) \/ DeleteFails(i) PROVE Elsewhere
  BY <1>5 DEF DeleteServed, DeleteAnswered, DeleteFails, server, watch
<1> QED
  BY <1>1, <1>2, <1>3, <1>4, <1>5 DEF Next

LEMMA WorkNext == Work /\ [Next]_vars => Work'
<1> SUFFICES ASSUME Work, [Next]_vars PROVE Work'
  OBVIOUS
<1>1. ASSUME NEW b \in Batch, Upload(b) PROVE Work'
  BY <1>1, TakesFile, SingleShot, Initiates, SendsChunk, Completes, Aborts, Ends DEF Upload
<1>2. ASSUME UNCHANGED <<batch, orphaned, clock>>,
             UNCHANGED sessions \/ \E s \in sessions : sessions' = sessions \ {s}
      PROVE  Work'
  BY <1>2 DEF Work, Shaped, AllPlaced, SessionsFreed
<1> QED
  BY <1>1, <1>2, TableSteps, Starts

LEMMA WorkCorrect == Spec => []Work
<1>1. Init => Work
  BY BatchInit DEF Work
<1> QED
  BY <1>1, WorkNext, PTL DEF Spec

-----------------------------------------------------------------------------
\* However an upload fails, at whatever step of whatever file, its session is in
\* a batch's care or gone, unless the client never heard of it or its call to
\* abort was lost.
THEOREM NoSessionForgotten == Spec => []SessionsFreed
<1>1. Work => SessionsFreed
  BY DEF Work
<1> QED
  BY <1>1, WorkCorrect, PTL

\* Only its end empties a slot.
LEMMA GoesOnWith ==
  ASSUME Shaped, NEW b \in Batch,
         NextFile(b) \/ uploadSingleShot(b) \/ initiateUpload(b) \/ uploadChunk(b)
           \/ completeUpload(b) \/ abortUpload(b)
  PROVE  OnlyBatch(b) /\ batch'[b].pc # "idle"
<1>1. CASE NextFile(b)
  <2>1. PICK f \in batch[b].left, pc \in {"initiate", "single"} :
          batch' = [batch EXCEPT ![b].pc = pc, ![b].file = f, ![b].left = @ \ {f},
                                 ![b].session = 0, ![b].chunk = 0]
    BY <1>1 DEF NextFile
  <2> QED
    BY <2>1 DEF Shaped, BatchShape, OnlyBatch
<1>2. CASE Succeeded(b) \/ Failed(b)
  BY <1>2 DEF Succeeded, Failed, Shaped, BatchShape, OnlyBatch
<1>3. CASE Go(b, "abort")
  BY <1>3 DEF Go, Shaped, BatchShape, OnlyBatch
<1>4. CASE batch' = [batch EXCEPT ![b].pc = "chunk", ![b].session = clock + 1]
  BY <1>4 DEF Shaped, BatchShape, OnlyBatch
<1>5. CASE \E k, pc : pc \in {"complete", "chunk"}
                       /\ batch' = [batch EXCEPT ![b].chunk = k, ![b].pc = pc]
  BY <1>5 DEF Shaped, BatchShape, OnlyBatch
<1>6. CASE uploadSingleShot(b) \/ abortUpload(b)
  BY <1>2, <1>6 DEF uploadSingleShot, abortUpload
<1>7. CASE initiateUpload(b)
  BY <1>2, <1>4, <1>7 DEF initiateUpload
<1>8. CASE uploadChunk(b)
  BY <1>3, <1>5, <1>8 DEF uploadChunk
<1>9. CASE completeUpload(b)
  BY <1>2, <1>3, <1>9 DEF completeUpload
<1> QED
  BY <1>1, <1>6, <1>7, <1>8, <1>9

\* Every file of a batch has been created or is among its failures when the
\* batch ends, whatever went wrong with it or with the files before it.
THEOREM EveryFileAttempted == Spec => AllAccounted
<1> DEFINE Accounted ==
      \A b \in Batch : batch[b].pc # "idle" /\ batch'[b].pc = "idle" =>
        batch[b].files = batch[b].created \cup batch[b].failures
<1>1. Work /\ [Next]_vars => [Accounted]_vars
  <2> SUFFICES ASSUME Work, Next PROVE Accounted
    BY DEF vars
  <2>1. CASE UNCHANGED batch
    BY <2>1
  <2>2. ASSUME NEW b \in Batch, NEW S \in SUBSET File, StartUpload(b, S) PROVE Accounted
    BY <2>2 DEF StartUpload, Work, Shaped, NoBatch
  <2>3. ASSUME NEW b \in Batch, Upload(b) PROVE Accounted
    <3>1. CASE EndUpload(b)
      <4>1. batch[b].files = batch[b].created \cup batch[b].failures
        BY <3>1 DEF EndUpload, Work, AllPlaced, Placed, Attempting
      <4>2. OnlyBatch(b)
        BY <3>1 DEF EndUpload, Work, Shaped, OnlyBatch
      <4> QED
        BY <4>1, <4>2 DEF OnlyBatch
    <3>2. CASE NextFile(b) \/ uploadSingleShot(b) \/ initiateUpload(b) \/ uploadChunk(b)
                 \/ completeUpload(b) \/ abortUpload(b)
      <4>1. OnlyBatch(b) /\ batch'[b].pc # "idle"
        BY <3>2, GoesOnWith DEF Work
      <4> QED
        BY <4>1 DEF OnlyBatch
    <3> QED
      BY <2>3, <3>1, <3>2 DEF Upload
  <2> QED
    BY <2>1, <2>2, <2>3, TableSteps
<1> QED
  BY <1>1, WorkCorrect, PTL DEF Spec, AllAccounted

-----------------------------------------------------------------------------
(* The shape of the state *)

\* A chunk is asked for only while some are left.
ChunkInv ==
  \A b \in Batch :
    /\ batch[b].chunk <= ChunkCount
    /\ batch[b].pc = "initiate" => batch[b].chunk = 0
    /\ batch[b].pc = "chunk" => batch[b].chunk < ChunkCount

LEMMA ChunkStep ==
  ASSUME Work, ChunkInv, NEW b \in Batch, OnlyBatch(b), batch'[b].chunk \in 0..ChunkCount,
         batch'[b].pc = "initiate" => batch'[b].chunk = 0,
         batch'[b].pc = "chunk" => batch'[b].chunk < ChunkCount
  PROVE  ChunkInv'
  BY DriveViewAssumption DEF ChunkInv, OnlyBatch

LEMMA ChunkNext == Work /\ ChunkInv /\ [Next]_vars => ChunkInv'
<1> SUFFICES ASSUME Work, ChunkInv, [Next]_vars PROVE ChunkInv'
  OBVIOUS
<1>1. \A b \in Batch : batch[b] \in BatchShape /\ batch[b].chunk \in 0..ChunkCount
  BY DriveViewAssumption DEF Work, Shaped, BatchShape, ChunkInv
<1>2. ChunkCount \in Nat \ {0}
  BY DriveViewAssumption
<1>3. ASSUME NEW b \in Batch, NEW S \in SUBSET File, StartUpload(b, S) PROVE ChunkInv'
  <2>1. OnlyBatch(b) /\ batch'[b].chunk = 0 /\ batch'[b].pc = "next"
    BY <1>3 DEF StartUpload, Work, Shaped, OnlyBatch, NoBatch
  <2> QED
    BY <1>2, <2>1, ChunkStep
<1>4. ASSUME NEW b \in Batch, Upload(b) PROVE ChunkInv'
  <2>1. ASSUME NextFile(b) PROVE ChunkInv'
    <3>1. PICK f \in batch[b].left, pc \in {"initiate", "single"} :
            batch' = [batch EXCEPT ![b].pc = pc, ![b].file = f, ![b].left = @ \ {f},
                                   ![b].session = 0, ![b].chunk = 0]
      BY <2>1 DEF NextFile
    <3>2. OnlyBatch(b) /\ batch'[b].chunk = 0 /\ batch'[b].pc = pc
      BY <3>1 DEF Work, Shaped, BatchShape, OnlyBatch
    <3>3. batch'[b].chunk \in 0..ChunkCount /\ batch'[b].pc # "chunk"
      BY <1>2, <3>1, <3>2
    <3> QED
      BY <3>2, <3>3, ChunkStep
  <2>2. ASSUME Succeeded(b) \/ Failed(b) PROVE ChunkInv'
    <3>1. OnlyBatch(b) /\ batch'[b].chunk = batch[b].chunk /\ batch'[b].pc = "next"
      BY <2>2 DEF Succeeded, Failed, Work, Shaped, BatchShape, OnlyBatch
    <3> QED
      BY <1>1, <3>1, ChunkStep
  <2>3. ASSUME Go(b, "abort") PROVE ChunkInv'
    <3>1. OnlyBatch(b) /\ batch'[b].chunk = batch[b].chunk /\ batch'[b].pc = "abort"
      BY <2>3 DEF Go, Work, Shaped, BatchShape, OnlyBatch
    <3> QED
      BY <1>1, <3>1, ChunkStep
  <2>4. ASSUME batch[b].pc = "initiate",
               batch' = [batch EXCEPT ![b].pc = "chunk", ![b].session = clock + 1]
        PROVE  ChunkInv'
    <3>1. OnlyBatch(b) /\ batch'[b].chunk = batch[b].chunk /\ batch'[b].pc = "chunk"
      BY <2>4 DEF Work, Shaped, BatchShape, OnlyBatch
    <3>2. batch[b].chunk = 0
      BY <2>4 DEF ChunkInv
    <3> QED
      BY <1>1, <1>2, <3>1, <3>2, ChunkStep
  <2>5. ASSUME uploadChunk(b) PROVE ChunkInv'
    <3>1. CASE Go(b, "abort")
      BY <2>3, <3>1
    <3>2. CASE batch' = [batch EXCEPT ![b].chunk = batch[b].chunk + 1,
                           ![b].pc = IF batch[b].chunk + 1 = ChunkCount
                                     THEN "complete" ELSE "chunk"]
      <4>1. /\ OnlyBatch(b) /\ batch'[b].chunk = batch[b].chunk + 1
            /\ batch'[b].pc = IF batch[b].chunk + 1 = ChunkCount
                              THEN "complete" ELSE "chunk"
        BY <3>2 DEF Work, Shaped, BatchShape, OnlyBatch
      <4>2. batch[b].chunk < ChunkCount
        BY <2>5 DEF uploadChunk, ChunkInv
      <4> QED
        BY <1>1, <1>2, <4>1, <4>2, ChunkStep
    <3> QED
      BY <2>5, <3>1, <3>2 DEF uploadChunk
  <2>6. ASSUME EndUpload(b) PROVE ChunkInv'
    <3>1. OnlyBatch(b) /\ batch'[b].chunk = 0 /\ batch'[b].pc = "idle"
      BY <2>6 DEF EndUpload, Work, Shaped, OnlyBatch, NoBatch
    <3> QED
      BY <1>2, <3>1, ChunkStep
  <2>7. CASE uploadSingleShot(b) \/ abortUpload(b)
    BY <2>2, <2>7 DEF uploadSingleShot, abortUpload
  <2>8. CASE initiateUpload(b)
    BY <2>2, <2>4, <2>8 DEF initiateUpload
  <2>9. CASE completeUpload(b)
    BY <2>2, <2>3, <2>9 DEF completeUpload
  <2> QED
    BY <1>4, <2>1, <2>5, <2>6, <2>7, <2>8, <2>9 DEF Upload
<1>5. CASE UNCHANGED batch
  BY <1>5 DEF ChunkInv
<1> QED
  BY <1>3, <1>4, <1>5, TableSteps

-----------------------------------------------------------------------------
(* The cache *)

\* What a fetch builds on: a refetch on what it has read so far, the fetch of a
\* further page on the pages shown.
Base(c) == IF c.fetch = "all" THEN c.got ELSE c.pages

LEMMA NoPages == <<>> \in Seq(SUBSET Row)
  OBVIOUS

LEMMA EmptyCached == /\ Empty \in Cached /\ Empty.fetch = "idle" /\ Empty.pages = <<>>
                     /\ Empty.answer = {}
                     /\ Restarted(Empty) \in Cached
  BY NoPages DEF Empty, Cached, Restarted

\* Reading from the start keeps what is shown.
LEMMA Restarts ==
  ASSUME NEW c \in Cached
  PROVE  /\ Restarted(c) \in Cached /\ Restarted(c).fetch = "all"
         /\ Restarted(c).pages = c.pages
         /\ Restarted(c).got = <<>> /\ Restarted(c).answer = {}
<1> DEFINE e == c.error /\ c.pages # <<>>
           r == [c EXCEPT !.fetch = "all"]
           s == [r EXCEPT !.got = <<>>]
           u == [s EXCEPT !.answer = {}]
<1>1. Restarted(c) = [u EXCEPT !.error = e] /\ e \in BOOLEAN
  BY DEF Restarted
<1>2. r \in Cached /\ r.fetch = "all" /\ r.pages = c.pages
  BY DEF Cached
<1> HIDE DEF r
<1>3. s \in Cached /\ s.fetch = "all" /\ s.pages = c.pages /\ s.got = <<>>
  BY <1>2, NoPages DEF Cached
<1> HIDE DEF s
<1>4. /\ u \in Cached /\ u.fetch = "all" /\ u.pages = c.pages /\ u.got = <<>>
      /\ u.answer = {}
  BY <1>3 DEF Cached
<1> HIDE DEF u, e
<1> QED
  BY <1>1, <1>4 DEF Cached

\* An answer on its way.
LEMMA Serves ==
  ASSUME NEW c \in Cached, NEW a \in Fetched
  PROVE  /\ [c EXCEPT !.answer = {a}] \in Cached
         /\ [c EXCEPT !.answer = {a}].answer = {a}
         /\ [c EXCEPT !.answer = {a}].fetch = c.fetch
         /\ [c EXCEPT !.answer = {a}].pages = c.pages
         /\ [c EXCEPT !.answer = {a}].got = c.got
         /\ [c EXCEPT !.answer = {a}].more = c.more
         /\ [c EXCEPT !.answer = {a}].error = c.error
  BY DEF Cached

\* More pages to come.
LEMMA Gathers ==
  ASSUME NEW c \in Cached, NEW got \in Seq(SUBSET Row)
  PROVE  /\ [c EXCEPT !.got = got, !.answer = {}] \in Cached
         /\ [c EXCEPT !.got = got, !.answer = {}].answer = {}
         /\ [c EXCEPT !.got = got, !.answer = {}].fetch = c.fetch
         /\ [c EXCEPT !.got = got, !.answer = {}].pages = c.pages
         /\ [c EXCEPT !.got = got, !.answer = {}].got = got
         /\ [c EXCEPT !.got = got, !.answer = {}].more = c.more
  BY DEF Cached

\* The last page has come.
LEMMA Settles ==
  ASSUME NEW pages \in Seq(SUBSET Row), NEW more \in BOOLEAN
  PROVE  LET s == [Empty EXCEPT !.pages = pages, !.more = more] IN
         /\ s \in Cached /\ s.pages = pages /\ s.answer = {}
         /\ s.fetch = "idle" /\ s.error = FALSE
  BY NoPages DEF Empty, Cached

LEMMA GivesUp ==
  ASSUME NEW c \in Cached
  PROVE  LET s == [c EXCEPT !.fetch = "idle", !.got = <<>>, !.answer = {}, !.error = TRUE] IN
         /\ s \in Cached /\ s.pages = c.pages /\ s.answer = {}
         /\ s.fetch = "idle" /\ s.error = TRUE
<1> DEFINE r == [c EXCEPT !.fetch = "idle"]
           s == [r EXCEPT !.got = <<>>]
           u == [s EXCEPT !.answer = {}]
<1>1. [c EXCEPT !.fetch = "idle", !.got = <<>>, !.answer = {}, !.error = TRUE]
        = [u EXCEPT !.error = TRUE]
  OBVIOUS
<1>2. r \in Cached /\ r.fetch = "idle" /\ r.pages = c.pages
  BY DEF Cached
<1> HIDE DEF r
<1>3. s \in Cached /\ s.fetch = "idle" /\ s.pages = c.pages
  BY <1>2, NoPages DEF Cached
<1> HIDE DEF s
<1>4. u \in Cached /\ u.fetch = "idle" /\ u.pages = c.pages /\ u.answer = {}
  BY <1>3 DEF Cached
<1> HIDE DEF u
<1> QED
  BY <1>1, <1>4 DEF Cached

LEMMA AsksNext ==
  ASSUME NEW c \in Cached
  PROVE  LET s == [c EXCEPT !.fetch = "next", !.got = <<>>, !.answer = {}] IN
         /\ s \in Cached /\ s.pages = c.pages /\ s.answer = {}
         /\ s.fetch = "next" /\ s.more = c.more
<1> DEFINE r == [c EXCEPT !.fetch = "next"]
           s == [r EXCEPT !.got = <<>>]
<1>1. [c EXCEPT !.fetch = "next", !.got = <<>>, !.answer = {}] = [s EXCEPT !.answer = {}]
  OBVIOUS
<1>2. r \in Cached /\ r.fetch = "next" /\ r.pages = c.pages /\ r.more = c.more
  BY DEF Cached
<1> HIDE DEF r
<1>3. s \in Cached /\ s.fetch = "next" /\ s.pages = c.pages /\ s.more = c.more
  BY <1>2, NoPages DEF Cached
<1> HIDE DEF s
<1> QED
  BY <1>1, <1>3 DEF Cached

\* What the types of the table are about.
CacheShape ==
  /\ rows \subseteq Row /\ view \in View /\ cache \in [View -> Cached]
  /\ \A v \in View : cache[v].fetch = "next" => cache[v].more

\* One view's cache is replaced.
LEMMA OneView ==
  ASSUME CacheShape, NEW v \in View, NEW c \in Cached, c.fetch = "next" => c.more,
         cache' = [cache EXCEPT ![v] = c], view' \in View, rows' \subseteq Row
  PROVE  CacheShape'
  BY DEF CacheShape

\* Invalidation touches the view on screen only, and reads it from the start
\* unless it is loading for the first time.
LEMMA Invalidates ==
  ASSUME CacheShape
  PROVE  \/ Invalidated = cache /\ ~Loaded(view)
         \/ Invalidated = [cache EXCEPT ![view] = Restarted(cache[view])]
  BY DEF Invalidated, FirstLoad

LEMMA InvalidatedShape ==
  ASSUME CacheShape, cache' = Invalidated, view' = view, rows' \subseteq Row
  PROVE  CacheShape'
<1>1. CASE cache' = cache
  BY <1>1 DEF CacheShape
<1>2. CASE cache' = [cache EXCEPT ![view] = Restarted(cache[view])]
  <2> DEFINE c == Restarted(cache[view])
  <2>1. view \in View /\ cache[view] \in Cached
    BY DEF CacheShape
  <2>2. c \in Cached /\ c.fetch = "all"
    BY <2>1, Restarts
  <2> HIDE DEF c
  <2>3. cache' = [cache EXCEPT ![view] = c]
    BY <1>2 DEF c
  <2> QED
    BY <2>1, <2>2, <2>3, OneView
<1> QED
  BY <1>1, <1>2, Invalidates

LEMMA PageShape ==
  ASSUME CacheShape, NEW v \in View, NEW k
  PROVE  [page |-> Page(v, k), more |-> HasMore(v, k)] \in Fetched
<1>1. Page(v, k) \in SUBSET Row
  BY DEF CacheShape, Page, Matching
<1>2. HasMore(v, k) \in BOOLEAN
  BY DEF HasMore
<1> QED
  BY <1>1, <1>2 DEF Fetched

LEMMA PagesGrow ==
  ASSUME NEW c \in Cached, NEW a \in Fetched
  PROVE  Append(Base(c), a.page) \in Seq(SUBSET Row) /\ Base(c) \in Seq(SUBSET Row)
<1>1. Base(c) \in Seq(SUBSET Row) /\ a.page \in SUBSET Row
  BY DEF Cached, Fetched, Base
<1> QED
  BY <1>1

\* An answer is the next page of a fetch that goes on, or the last of the
\* pages shown from then on.
LEMMA Answers ==
  ASSUME CacheShape, NEW v \in View, PageAnswered(v)
  PROVE  \E a \in cache[v].answer, c \in Cached :
           /\ a \in Fetched /\ cache' = [cache EXCEPT ![v] = c]
           /\ c.answer = {} /\ c.fetch \in {"idle", "all"}
           /\ Base(c) = Append(Base(cache[v]), a.page)
           /\ c.pages = cache[v].pages \/ c.pages = Base(c)
           /\ c.fetch = "all" => cache[v].fetch = "all" /\ c.pages = cache[v].pages
           /\ c.fetch = "idle" => ~c.error /\ c.pages = Base(c)
<1> DEFINE q == cache[v]
<1>1. q \in Cached /\ q.answer \subseteq Fetched
  BY DEF CacheShape, Cached
<1>2. PICK a \in q.answer :
        cache' = [cache EXCEPT ![v] =
          IF q.fetch = "all" /\ a.more /\ Len(Append(Base(q), a.page)) < Len(q.pages)
          THEN [q EXCEPT !.got = Append(Base(q), a.page), !.answer = {}]
          ELSE [Empty EXCEPT !.pages = Append(Base(q), a.page), !.more = a.more]]
  BY DEF PageAnswered, Base
<1>3. a \in Fetched /\ a.more \in BOOLEAN
  BY <1>1, <1>2 DEF Fetched
<1> DEFINE got == Append(Base(q), a.page)
           s == [Empty EXCEPT !.pages = got, !.more = a.more]
           g == [q EXCEPT !.got = got, !.answer = {}]
<1>4. got \in Seq(SUBSET Row)
  BY <1>1, <1>3, PagesGrow
<1>5. \/ cache' = [cache EXCEPT ![v] = g] /\ q.fetch = "all"
      \/ cache' = [cache EXCEPT ![v] = s]
  BY <1>2
<1> HIDE DEF got, q
<1>6. /\ g \in Cached /\ g.answer = {} /\ g.fetch = q.fetch
      /\ g.pages = q.pages /\ g.got = got
  BY <1>1, <1>4, Gathers
<1>7. /\ s \in Cached /\ s.pages = got /\ s.answer = {} /\ s.fetch = "idle"
      /\ s.error = FALSE
  BY <1>3, <1>4, Settles
<1> HIDE DEF g, s
<1>8. CASE cache' = [cache EXCEPT ![v] = g] /\ q.fetch = "all"
  <2>1. Base(g) = got
    BY <1>6, <1>8 DEF Base
  <2> QED
    BY <1>2, <1>3, <1>6, <1>8, <2>1 DEF got, q
<1>9. CASE cache' = [cache EXCEPT ![v] = s]
  <2>1. Base(s) = got
    BY <1>7 DEF Base
  <2> QED
    BY <1>2, <1>3, <1>7, <1>9, <2>1 DEF got, q
<1> QED
  BY <1>5, <1>8, <1>9

LEMMA CacheInit == Init => CacheShape
<1> SUFFICES ASSUME Init PROVE CacheShape
  OBVIOUS
<1>1. rows \subseteq Row
  <2>1. \A i \in DOMAIN Initially : i \in Nat /\ Initially[i] \in File
    BY DriveViewAssumption
  <2> QED
    BY <2>1 DEF Init, Row
<1>2. view \in View
  BY DriveViewAssumption DEF Init
<1>3. Empty \in Cached /\ Restarted(Empty) \in Cached
  BY EmptyCached
<1>4. cache \in [View -> Cached]
  BY <1>3 DEF Init
<1>5. Empty.fetch # "next" /\ Restarted(Empty).fetch # "next"
  BY EmptyCached, Restarts
<1>6. \A v \in View : cache[v].fetch # "next"
  BY <1>5 DEF Init
<1> QED
  BY <1>1, <1>2, <1>4, <1>6 DEF CacheShape

\* What uploads do to the rest: rows appear while a batch is at work, and its
\* end invalidates.
LEMMA UploadEffects ==
  ASSUME Work, NEW b \in Batch, Upload(b)
  PROVE  /\ UNCHANGED <<view, deletes, lost>> /\ batch[b].pc # "idle"
         /\ OnlyBatch(b)
         /\ \/ invalidateQueries /\ rows' = rows
            \/ UNCHANGED <<cache, behind>> /\ batch'[b].pc # "idle"
         /\ \/ rows' = rows
            \/ rows' = rows \cup {[id |-> clock + 1, file |-> batch[b].file]}
<1>1. CASE EndUpload(b)
  BY <1>1 DEF EndUpload, server, Work, Shaped, OnlyBatch
<1>2. CASE NextFile(b) \/ uploadSingleShot(b) \/ initiateUpload(b) \/ uploadChunk(b)
             \/ completeUpload(b) \/ abortUpload(b)
  <2>1. OnlyBatch(b) /\ batch'[b].pc # "idle"
    BY <1>2, GoesOnWith DEF Work
  <2>2. CASE NextFile(b)
    BY <2>1, <2>2 DEF NextFile, server, watch
  <2>3. CASE uploadSingleShot(b)
    BY <2>1, <2>3 DEF uploadSingleShot, Created
  <2>4. CASE initiateUpload(b)
    BY <2>1, <2>4 DEF initiateUpload
  <2>5. CASE uploadChunk(b)
    BY <2>1, <2>5 DEF uploadChunk, server
  <2>6. CASE completeUpload(b)
    BY <2>1, <2>6 DEF completeUpload, Created, server
  <2>7. CASE abortUpload(b)
    BY <2>1, <2>7 DEF abortUpload
  <2> QED
    BY <1>2, <2>2, <2>3, <2>4, <2>5, <2>6, <2>7
<1> QED
  BY <1>1, <1>2 DEF Upload

LEMMA NewRow ==
  ASSUME Work, NEW b \in Batch
  PROVE  [id |-> clock + 1, file |-> batch[b].file] \in Row
<1>1. NoBatch.file \in File
  BY DriveViewAssumption DEF NoBatch
<1>2. batch[b].file \in File /\ clock + 1 \in Nat
  BY <1>1 DEF Work, Shaped, BatchShape
<1> QED
  BY <1>2 DEF Row

LEMMA CacheNext == Work /\ CacheShape /\ [Next]_vars => CacheShape'
<1> SUFFICES ASSUME Work, CacheShape, [Next]_vars PROVE CacheShape'
  OBVIOUS
<1>0. rows \subseteq Row /\ view \in View /\ \A v \in View : cache[v] \in Cached
  BY DEF CacheShape
<1>1. ASSUME NEW v \in View, PageServed(v) PROVE CacheShape'
  <2>1. PICK a \in Fetched : cache' = [cache EXCEPT ![v].answer = {a}]
    BY <1>1, PageShape DEF PageServed
  <2> DEFINE c == [cache[v] EXCEPT !.answer = {a}]
  <2>2. c \in Cached /\ c.fetch = cache[v].fetch /\ c.more = cache[v].more
    BY <1>0, Serves
  <2>3. cache' = [cache EXCEPT ![v] = c] /\ UNCHANGED <<rows, view>>
    BY <1>1, <2>1 DEF PageServed, server
  <2> HIDE DEF c
  <2>4. c.fetch = "next" => c.more
    BY <2>2 DEF CacheShape
  <2> QED
    BY <1>0, <2>2, <2>3, <2>4, OneView
<1>2. ASSUME NEW v \in View, PageAnswered(v) PROVE CacheShape'
  <2>1. PICK c \in Cached : cache' = [cache EXCEPT ![v] = c] /\ c.fetch # "next"
    BY <1>2, Answers
  <2>2. UNCHANGED <<rows, view>>
    BY <1>2 DEF PageAnswered, server
  <2> QED
    BY <1>0, <2>1, <2>2, OneView
<1>3. ASSUME NEW v \in View, FetchFails(v) PROVE CacheShape'
  <2> DEFINE c == [cache[v] EXCEPT !.fetch = "idle", !.got = <<>>, !.answer = {},
                                   !.error = TRUE]
  <2>1. c \in Cached /\ c.fetch = "idle"
    BY <1>0, GivesUp
  <2>2. cache' = [cache EXCEPT ![v] = c] /\ UNCHANGED <<rows, view>>
    BY <1>3 DEF FetchFails, server
  <2> HIDE DEF c
  <2> QED
    BY <1>0, <2>1, <2>2, OneView
<1>4. ASSUME NEW v \in View, UNCHANGED rows, view' \in View,
             cache' = [cache EXCEPT ![v] = Restarted(cache[v])]
      PROVE  CacheShape'
  <2> DEFINE c == Restarted(cache[v])
  <2>1. c \in Cached /\ c.fetch = "all"
    BY <1>0, Restarts
  <2>2. cache' = [cache EXCEPT ![v] = c]
    BY <1>4
  <2> HIDE DEF c
  <2> QED
    BY <1>0, <1>4, <2>1, <2>2, OneView
<1>5. ASSUME NEW v \in View, SwitchView(v) PROVE CacheShape'
  <2>1. view' = v /\ rows' = rows
    BY <1>5 DEF SwitchView, server
  <2>2. CASE cache' = cache
    BY <2>1, <2>2 DEF CacheShape
  <2>3. CASE cache' = [cache EXCEPT ![v] = Restarted(cache[v])]
    BY <1>4, <2>1, <2>3
  <2> QED
    BY <1>5, <2>2, <2>3 DEF SwitchView
<1>6. CASE Focus
  BY <1>0, <1>4, <1>6 DEF Focus, server
<1>7. CASE NextPage
  <2> DEFINE c == [cache[view] EXCEPT !.fetch = "next", !.got = <<>>, !.answer = {}]
  <2>1. c \in Cached /\ c.more = cache[view].more
    BY <1>0, AsksNext
  <2>2. cache' = [cache EXCEPT ![view] = c] /\ UNCHANGED <<rows, view>> /\ cache[view].more
    BY <1>7 DEF NextPage, server
  <2> HIDE DEF c
  <2> QED
    BY <1>0, <2>1, <2>2, OneView
<1>8. ASSUME NEW b \in Batch, Upload(b) PROVE CacheShape'
  <2>1. rows' \subseteq Row
    BY <1>0, <1>8, UploadEffects, NewRow
  <2>2. view' = view /\ (cache' = Invalidated \/ cache' = cache)
    BY <1>8, UploadEffects DEF invalidateQueries
  <2>3. CASE cache' = cache
    BY <2>1, <2>2, <2>3 DEF CacheShape
  <2> QED
    BY <2>1, <2>2, <2>3, InvalidatedShape
<1>9. ASSUME NEW i, DeleteServed(i) \/ DeleteAnswered(i) \/ DeleteFails(i) PROVE CacheShape'
  <2>1. rows' \subseteq Row /\ view' = view /\ (cache' = Invalidated \/ cache' = cache)
    BY <1>0, <1>9 DEF DeleteServed, DeleteAnswered, DeleteFails, invalidateQueries, server
  <2>2. CASE cache' = cache
    BY <2>1, <2>2 DEF CacheShape
  <2> QED
    BY <2>1, <2>2, InvalidatedShape
<1>10. CASE UNCHANGED <<rows, view, cache>>
  BY <1>10 DEF CacheShape
<1>11. ASSUME NEW r, handleDelete(r) PROVE UNCHANGED <<rows, view, cache>>
  BY <1>11 DEF handleDelete, server
<1>12. ASSUME NEW b, NEW S, StartUpload(b, S) PROVE UNCHANGED <<rows, view, cache>>
  BY <1>12 DEF StartUpload, server
<1>13. ASSUME NEW s, Expire(s) PROVE UNCHANGED <<rows, view, cache>>
  BY <1>13 DEF Expire
<1>14. CASE UNCHANGED vars
  BY <1>10, <1>14 DEF vars
<1> QED
  BY <1>1, <1>2, <1>3, <1>5, <1>6, <1>7, <1>8, <1>9, <1>10, <1>11, <1>12, <1>13, <1>14
  DEF Next

\* What the types of the mutations and of the histories are about.
CallShape ==
  /\ DOMAIN deletes \subseteq Nat
  /\ \A i \in DOMAIN deletes : deletes[i] \in {"sent", "done", "refused"}
  /\ sessions \subseteq Nat /\ lost \subseteq Nat /\ orphaned \subseteq Nat /\ moves \in Nat

LEMMA ShownRows ==
  ASSUME CacheShape, NEW v \in View
  PROVE  Shown(v) \subseteq Row
<1>1. cache[v].pages \in Seq(SUBSET Row)
  BY DEF CacheShape, Cached
<1>2. \A k \in DOMAIN cache[v].pages : cache[v].pages[k] \in SUBSET Row
  BY <1>1
<1> QED
  BY <1>2 DEF Shown

LEMMA CallNext == Work /\ CacheShape /\ CallShape /\ [Next]_vars => CallShape'
<1> SUFFICES ASSUME Work, CacheShape, CallShape, [Next]_vars PROVE CallShape'
  OBVIOUS
<1>1. moves' \in Nat
  <2>1. ASSUME moves' = moves \/ \E k : Move(k) PROVE moves' \in Nat
    BY <2>1 DEF Move, CallShape
  <2>2. ASSUME NEW v \in View, PageServed(v) \/ PageAnswered(v) \/ FetchFails(v) \/ SwitchView(v)
        PROVE  moves' \in Nat
    BY <2>1, <2>2 DEF PageServed, PageAnswered, FetchFails, SwitchView, watch
  <2>3. ASSUME NextPage \/ Focus PROVE moves' \in Nat
    BY <2>1, <2>3 DEF NextPage, Focus, watch
  <2>4. ASSUME NEW r, handleDelete(r) PROVE moves' \in Nat
    BY <2>1, <2>4 DEF handleDelete
  <2>5. ASSUME NEW i, DeleteServed(i) \/ DeleteAnswered(i) \/ DeleteFails(i) PROVE moves' \in Nat
    BY <2>1, <2>5 DEF DeleteServed, DeleteAnswered, DeleteFails, watch
  <2>6. ASSUME NEW b \in Batch, Upload(b) PROVE moves' \in Nat
    BY <2>1, <2>6 DEF Upload, NextFile, uploadSingleShot, initiateUpload, uploadChunk,
                      completeUpload, abortUpload, EndUpload, Fault, watch
  <2>7. ASSUME NEW b, NEW S, StartUpload(b, S) PROVE moves' \in Nat
    BY <2>1, <2>7 DEF StartUpload
  <2>8. ASSUME NEW s, Expire(s) PROVE moves' \in Nat
    BY <2>1, <2>8 DEF Expire
  <2>9. CASE UNCHANGED vars
    BY <2>1, <2>9 DEF vars
  <2> QED
    BY <2>2, <2>3, <2>4, <2>5, <2>6, <2>7, <2>8, <2>9 DEF Next
<1>2. sessions' \subseteq Nat /\ orphaned' \subseteq Nat
  <2>1. clock + 1 \in Nat /\ \A b \in Batch : batch[b].session \in Nat
    BY DEF Work, Shaped, BatchShape
  <2>2. ASSUME NEW b \in Batch, Upload(b) PROVE sessions' \subseteq Nat /\ orphaned' \subseteq Nat
    <3>1. CASE initiateUpload(b) \/ abortUpload(b)
      BY <2>1, <3>1 DEF initiateUpload, abortUpload, CallShape
    <3>2. CASE NextFile(b) \/ uploadSingleShot(b) \/ uploadChunk(b) \/ EndUpload(b)
      BY <3>2 DEF NextFile, uploadSingleShot, uploadChunk, EndUpload, server, watch, CallShape
    <3>3. CASE completeUpload(b)
      BY <3>3 DEF completeUpload, server, CallShape
    <3> QED
      BY <2>2, <3>1, <3>2, <3>3 DEF Upload
  <2>3. ASSUME NEW b, NEW S, StartUpload(b, S) PROVE UNCHANGED <<sessions, orphaned>>
    BY <2>3 DEF StartUpload, server
  <2>4. ASSUME UNCHANGED orphaned,
               UNCHANGED sessions \/ \E s \in sessions : sessions' = sessions \ {s}
        PROVE  sessions' \subseteq Nat /\ orphaned' \subseteq Nat
    BY <2>4 DEF CallShape
  <2> QED
    BY <2>2, <2>3, <2>4, TableSteps DEF CallShape
<1> DEFINE Calls(d, l) == /\ DOMAIN d \subseteq Nat /\ l \subseteq Nat
                          /\ \A i \in DOMAIN d : d[i] \in {"sent", "done", "refused"}
<1>3. Calls(deletes', lost')
  <2>1. Calls(deletes, lost)
    BY DEF CallShape
  <2>2. ASSUME NEW r \in Shown(view), handleDelete(r) PROVE Calls(deletes', lost')
    <3>1. r.id \in Nat
      BY ShownRows DEF CacheShape, Row
    <3>2. /\ deletes' = [i \in DOMAIN deletes \cup {r.id} |->
                           IF i = r.id THEN "sent" ELSE deletes[i]]
          /\ lost' = lost
      BY <2>2 DEF handleDelete
    <3> QED
      BY <2>1, <3>1, <3>2
  <2>3. ASSUME NEW i \in DOMAIN deletes, DeleteServed(i) PROVE Calls(deletes', lost')
    BY <2>1, <2>3 DEF DeleteServed, watch
  <2>4. ASSUME NEW i \in DOMAIN deletes, DeleteAnswered(i) \/ DeleteFails(i)
        PROVE  Calls(deletes', lost')
    BY <2>1, <2>4 DEF DeleteAnswered, DeleteFails, Without, watch
  <2>5. CASE UNCHANGED <<deletes, lost>>
    BY <2>1, <2>5
  <2>6. ASSUME NEW v \in View, PageServed(v) \/ PageAnswered(v) \/ FetchFails(v) \/ SwitchView(v)
        PROVE  UNCHANGED <<deletes, lost>>
    BY <2>6 DEF PageServed, PageAnswered, FetchFails, SwitchView, watch
  <2>7. ASSUME NextPage \/ Focus PROVE UNCHANGED <<deletes, lost>>
    BY <2>7 DEF NextPage, Focus, watch
  <2>8. ASSUME NEW b \in Batch, NEW S, StartUpload(b, S) \/ Upload(b)
        PROVE  UNCHANGED <<deletes, lost>>
    BY <2>8, UploadEffects DEF StartUpload
  <2>9. ASSUME NEW s, Expire(s) PROVE UNCHANGED <<deletes, lost>>
    BY <2>9 DEF Expire
  <2>10. CASE UNCHANGED vars
    BY <2>5, <2>10 DEF vars
  <2> HIDE DEF Calls
  <2> QED
    BY <2>2, <2>3, <2>4, <2>5, <2>6, <2>7, <2>8, <2>9, <2>10 DEF Next
<1> QED
  BY <1>1, <1>2, <1>3 DEF CallShape

BehindShape == behind \in [View -> {"no", "reading", "yes"}]

LEMMA BehindNext == Work /\ BehindShape /\ [Next]_vars => BehindShape'
<1> SUFFICES ASSUME Work, BehindShape, [Next]_vars PROVE BehindShape'
  OBVIOUS
<1>1. ASSUME behind' = behind PROVE BehindShape'
  BY <1>1 DEF BehindShape
<1>2. ASSUME NEW v \in View, Reread(v) \/ CallOff(v) PROVE BehindShape'
  BY <1>2 DEF Reread, CallOff, BehindShape
<1>3. ASSUME invalidateQueries PROVE BehindShape'
  BY <1>3 DEF invalidateQueries, BehindShape
<1>4. ASSUME NEW v \in View, PageServed(v) \/ PageAnswered(v) \/ FetchFails(v) \/ SwitchView(v)
      PROVE  BehindShape'
  BY <1>1, <1>2, <1>4 DEF PageServed, PageAnswered, FetchFails, SwitchView, watch, BehindShape
<1>5. ASSUME NextPage \/ Focus PROVE CallOff(view) \/ Reread(view)
  BY <1>5 DEF NextPage, Focus
<1>6. ASSUME NEW v, v \notin View, Reread(v) \/ CallOff(v) PROVE BehindShape'
  BY <1>6 DEF Reread, CallOff, BehindShape
<1>7. ASSUME NEW r, handleDelete(r) PROVE behind' = behind
  BY <1>7 DEF handleDelete
<1>8. ASSUME NEW i, DeleteServed(i) \/ DeleteAnswered(i) \/ DeleteFails(i)
      PROVE  invalidateQueries \/ behind' = behind
  BY <1>8 DEF DeleteServed, DeleteAnswered, DeleteFails, watch
<1>9. ASSUME NEW b \in Batch, Upload(b) PROVE invalidateQueries \/ behind' = behind
  BY <1>9, UploadEffects
<1>10. ASSUME NEW b, NEW S, StartUpload(b, S) PROVE behind' = behind
  BY <1>10 DEF StartUpload
<1>11. ASSUME NEW s, Expire(s) PROVE behind' = behind
  BY <1>11 DEF Expire
<1>12. CASE UNCHANGED vars
  BY <1>1, <1>12 DEF vars
<1> QED
  BY <1>1, <1>2, <1>3, <1>4, <1>5, <1>6, <1>7, <1>8, <1>9, <1>10, <1>11, <1>12 DEF Next

\* What is inductive about the shape of the state.
ViewShape == Work /\ ChunkInv /\ CacheShape /\ CallShape /\ BehindShape

LEMMA ViewShapeCorrect == Spec => []ViewShape
<1>1. Init => ViewShape
  <2>1. ASSUME Init PROVE ChunkInv
    BY <2>1, DriveViewAssumption DEF Init, ChunkInv, NoBatch
  <2>2. ASSUME Init PROVE CallShape
    BY <2>2 DEF Init, CallShape
  <2>3. ASSUME Init PROVE BehindShape
    BY <2>3 DEF Init, BehindShape
  <2> QED
    BY <2>1, <2>2, <2>3, BatchInit, CacheInit DEF ViewShape, Work
<1>2. ViewShape /\ [Next]_vars => ViewShape'
  BY WorkNext, ChunkNext, CacheNext, CallNext, BehindNext DEF ViewShape
<1> QED
  BY <1>1, <1>2, PTL DEF Spec

\* The rows and sessions of the server, what the cache holds and fetches for
\* each view, and the calls under way keep their shape, for any number of views,
\* batches, files, chunks and pages.
THEOREM TypesCorrect == Spec => []TypeOK
<1>1. ViewShape => TypeOK
  <2> SUFFICES ASSUME ViewShape PROVE TypeOK
    OBVIOUS
  <2>1. batch \in [Batch -> Uploading]
    <3>1. NoBatch.file \in File
      BY DriveViewAssumption DEF NoBatch
    <3>2. ASSUME NEW b \in Batch PROVE batch[b] \in Uploading
      <4>1. batch[b] \in BatchShape /\ batch[b].chunk \in 0..ChunkCount
        BY DriveViewAssumption DEF ViewShape, Work, Shaped, BatchShape, ChunkInv
      <4>2. batch[b].file \in File
        BY <3>1, <4>1 DEF BatchShape
      <4> QED
        BY <4>1, <4>2 DEF BatchShape, Attempting, Uploading
    <3> QED
      BY <3>2 DEF ViewShape, Work, Shaped
  <2> QED
    BY <2>1 DEF ViewShape, Work, Shaped, CacheShape, CallShape, BehindShape, TypeOK
<1> QED
  BY <1>1, ViewShapeCorrect, PTL

-----------------------------------------------------------------------------
(* What the table shows *)

\* Nothing the server has done is still to be made known to the table.
AtRest ==
  /\ lost = {}
  /\ \A i \in DOMAIN deletes : deletes[i] # "done"
  /\ \A b \in Batch : batch[b].pc = "idle"

\* A row that may be shown: it is there, or it was deleted by a call that was
\* reported as failed, or by one whose answer is about to be told to the table.
Known(r) == r \in rows \/ r.id \in lost \/ (r.id \in DOMAIN deletes /\ deletes[r.id] = "done")

\* A page read shows nothing else that is gone, and at rest it is exact.
Right(v, k, P) == (\A r \in P : Known(r)) /\ (AtRest => P = Page(v, k))

PagesRight(v, pages) == \A k \in DOMAIN pages : Right(v, k - 1, pages[k])

\* What the cache shows is right unless the view is behind, and so is what the
\* fetch under way has read, when it can make up for what is missed.
RightSoFar(v, c, s) ==
  /\ c.fetch = "idle" => c.answer = {}
  /\ s = "no" => PagesRight(v, c.pages)
  /\ s = "reading" => c.fetch = "all"
  /\ s # "yes" /\ c.fetch # "idle" =>
       /\ PagesRight(v, Base(c))
       /\ \A a \in c.answer : Right(v, Len(Base(c)), a.page)

TableInv == \A v \in View : RightSoFar(v, cache[v], behind[v])

\* The server's and the mutations' side of a step leaves what is right right.
Calm ==
  /\ \A r : Known(r) => Known(r)'
  /\ AtRest' => AtRest /\ rows' = rows

LEMMA SamePage ==
  ASSUME rows' = rows
  PROVE  \A v, k : Page(v, k)' = Page(v, k)
  BY DEF Page, Matching, Before

LEMMA StaysRight ==
  ASSUME NEW v, NEW c, NEW s, RightSoFar(v, c, s), Calm
  PROVE  RightSoFar(v, c, s)'
<1>1. ASSUME NEW k, NEW P, Right(v, k, P) PROVE Right(v, k, P)'
  <2>1. \A r \in P : Known(r)'
    BY <1>1 DEF Right, Calm
  <2>2. AtRest' => P = Page(v, k)'
    BY <1>1, SamePage DEF Right, Calm
  <2> QED
    BY <2>1, <2>2 DEF Right
<1> QED
  BY <1>1 DEF RightSoFar, PagesRight, Base

LEMMA TablePrime ==
  ASSUME \A v \in View : \E c, s : c = cache'[v] /\ s = behind'[v] /\ RightSoFar(v, c, s)'
  PROVE  TableInv'
<1> SUFFICES ASSUME NEW v \in View PROVE RightSoFar(v, cache[v], behind[v])'
  BY DEF TableInv
<1>1. PICK c, s : c = cache'[v] /\ s = behind'[v] /\ RightSoFar(v, c, s)'
  OBVIOUS
<1> QED
  BY <1>1 DEF RightSoFar, PagesRight, Right, Base, Known, AtRest, Page, Matching, Before

\* A step at the cache's end: nothing changes but what is cached.
LEMMA CalmCache ==
  ASSUME UNCHANGED <<rows, deletes, lost, batch>>
  PROVE  Calm
  BY DEF Calm, Known, AtRest

\* A fetch that begins has read nothing wrong.
LEMMA FreshRight ==
  ASSUME NEW v, NEW c \in Cached, NEW s, s = "no" => PagesRight(v, c.pages)
  PROVE  RightSoFar(v, Restarted(c), s)
<1> DEFINE d == Restarted(c)
<1>1. d.fetch = "all" /\ d.got = <<>> /\ d.answer = {} /\ d.pages = c.pages
  BY Restarts
<1>2. PagesRight(v, <<>>)
  BY DEF PagesRight
<1> HIDE DEF d
<1>3. Base(d) = <<>>
  BY <1>1 DEF Base
<1>4. RightSoFar(v, d, s)
  BY <1>1, <1>2, <1>3 DEF RightSoFar
<1> QED
  BY <1>4 DEF d

\* One view's entry is replaced.
LEMMA Replaces ==
  ASSUME CacheShape, BehindShape, TableInv, Calm, NEW v \in View, NEW c, NEW s,
         cache' = [cache EXCEPT ![v] = c], behind' = [behind EXCEPT ![v] = s],
         RightSoFar(v, c, s)
  PROVE  TableInv'
<1>1. ASSUME NEW u \in View
      PROVE  \E d, t : d = cache'[u] /\ t = behind'[u] /\ RightSoFar(u, d, t)'
  <2>1. CASE u = v
    <3>1. c = cache'[u] /\ s = behind'[u]
      BY <2>1 DEF CacheShape, BehindShape
    <3>2. RightSoFar(v, c, s)'
      BY StaysRight
    <3> QED
      BY <2>1, <3>1, <3>2
  <2>2. CASE u # v
    <3>1. PICK d, t : d = cache[u] /\ t = behind[u]
      OBVIOUS
    <3>2. d = cache'[u] /\ t = behind'[u] /\ RightSoFar(u, d, t)
      BY <2>2, <3>1 DEF CacheShape, BehindShape, TableInv
    <3>3. RightSoFar(u, d, t)'
      BY <3>2, StaysRight
    <3> QED
      BY <3>2, <3>3
  <2> QED
    BY <2>1, <2>2
<1> QED
  BY <1>1, TablePrime

LEMMA StaysAsItIs ==
  ASSUME TableInv, Calm, UNCHANGED <<cache, behind>>
  PROVE  TableInv'
<1>1. ASSUME NEW u \in View
      PROVE  \E d, t : d = cache'[u] /\ t = behind'[u] /\ RightSoFar(u, d, t)'
  <2>1. PICK d, t : d = cache[u] /\ t = behind[u]
    OBVIOUS
  <2>2. d = cache'[u] /\ t = behind'[u] /\ RightSoFar(u, d, t)
    BY <2>1 DEF TableInv
  <2>3. RightSoFar(u, d, t)'
    BY <2>2, StaysRight
  <2> QED
    BY <2>2, <2>3
<1> QED
  BY <1>1, TablePrime

LEMMA StartsAfresh ==
  ASSUME CacheShape, BehindShape, TableInv, Calm, NEW v \in View, cache[v].fetch = "idle",
         cache' = [cache EXCEPT ![v] = Restarted(cache[v])], Reread(v)
  PROVE  TableInv'
<1>0. PICK c \in Cached : c = cache[v]
  BY DEF CacheShape
<1>1. PICK s, t : c = cache[v] /\ s = behind[v] /\ t = IF s = "yes" THEN "reading" ELSE s
  BY <1>0
<1>2. cache' = [cache EXCEPT ![v] = Restarted(c)] /\ behind' = [behind EXCEPT ![v] = t]
  BY <1>1 DEF Reread, BehindShape
<1>3. t = "no" => PagesRight(v, c.pages)
  BY <1>1 DEF TableInv, RightSoFar
<1>4. RightSoFar(v, Restarted(c), t)
  BY <1>3, FreshRight
<1>5. PICK d : d = Restarted(c)
  OBVIOUS
<1> QED
  BY <1>2, <1>4, <1>5, Replaces

\* Whatever is left as it was counts as behind from then on.
LEMMA InvalidatesTable ==
  ASSUME CacheShape, BehindShape, TableInv, invalidateQueries
  PROVE  TableInv'
<1>1. ASSUME NEW u \in View
      PROVE  \E d, t : d = cache'[u] /\ t = behind'[u] /\ RightSoFar(u, d, t)'
  <2>1. CASE u = view /\ ~FirstLoad
    <3>0. PICK c \in Cached : c = cache[u]
      BY DEF CacheShape
    <3>1. PICK d : d = Restarted(c)
      OBVIOUS
    <3>2. behind'[u] = "reading" /\ cache'[u] = d
      BY <2>1, <3>0, <3>1 DEF invalidateQueries, Invalidated, CacheShape
    <3>3. d.fetch = "all" /\ d.got = <<>> /\ d.answer = {}
      BY <3>1, Restarts
    <3>4. RightSoFar(u, d, "reading")'
      BY <3>3 DEF RightSoFar, PagesRight, Base
    <3> QED
      BY <3>2, <3>4
  <2>2. CASE ~(u = view /\ ~FirstLoad)
    <3>1. PICK d : d = cache'[u]
      OBVIOUS
    <3>2. behind'[u] = "yes"
      BY <2>2 DEF invalidateQueries
    <3>3. cache'[u] = cache[u]
      BY <2>2 DEF invalidateQueries, Invalidated, CacheShape
    <3>4. d.fetch = "idle" => d.answer = {}
      BY <3>1, <3>3 DEF TableInv, RightSoFar
    <3>5. RightSoFar(u, d, "yes")'
      BY <3>4 DEF RightSoFar
    <3> QED
      BY <3>1, <3>2, <3>5
  <2> QED
    BY <2>1, <2>2
<1> QED
  BY <1>1, TablePrime

LEMMA ServedRight ==
  ASSUME CacheShape, BehindShape, TableInv, NEW v \in View, PageServed(v)
  PROVE  TableInv'
<1>0. PICK q \in Cached : q = cache[v]
  BY DEF CacheShape
<1>1. PICK s : q = cache[v] /\ s = behind[v]
  BY <1>0
<1>2. q.fetch # "idle" /\ RightSoFar(v, q, s)
  BY <1>1 DEF PageServed, TableInv
<1> DEFINE a == [page |-> Page(v, Len(Base(q))), more |-> HasMore(v, Len(Base(q)))]
           c == [q EXCEPT !.answer = {a}]
<1>3. cache' = [cache EXCEPT ![v] = c] /\ behind' = [behind EXCEPT ![v] = s] /\ Calm
  <2>1. cache' = [cache EXCEPT ![v].answer = {a}]
    BY <1>1 DEF PageServed, Base
  <2>2. cache' = [cache EXCEPT ![v] = c]
    BY <1>1, <2>1
  <2>3. behind' = behind /\ Calm
    BY CalmCache DEF PageServed, server, watch
  <2> QED
    BY <1>1, <2>2, <2>3 DEF BehindShape
<1>4. a \in Fetched /\ a.page = Page(v, Len(Base(q)))
  BY PageShape
<1> HIDE DEF a
<1>5. /\ c.answer = {a} /\ c.fetch = q.fetch /\ c.pages = q.pages /\ c.got = q.got
  BY <1>4, Serves
<1> HIDE DEF c
<1>6. Base(c) = Base(q)
  BY <1>5 DEF Base
<1>7. Right(v, Len(Base(q)), a.page)
  BY <1>4 DEF Right, Known, Page, Matching
<1>8. RightSoFar(v, c, s)
  BY <1>2, <1>5, <1>6, <1>7 DEF RightSoFar
<1> QED
  BY <1>3, <1>8, Replaces

LEMMA AppendRight ==
  ASSUME NEW v, NEW s \in Seq(SUBSET Row), NEW P \in SUBSET Row,
         PagesRight(v, s), Right(v, Len(s), P)
  PROVE  PagesRight(v, Append(s, P))
<1> SUFFICES ASSUME NEW k \in DOMAIN Append(s, P) PROVE Right(v, k - 1, Append(s, P)[k])
  BY DEF PagesRight
<1>1. CASE k \in DOMAIN s
  <2>1. Append(s, P)[k] = s[k]
    BY <1>1
  <2> QED
    BY <1>1, <2>1 DEF PagesRight
<1>2. CASE k \notin DOMAIN s
  <2>1. k - 1 = Len(s) /\ Append(s, P)[k] = P
    BY <1>2
  <2> QED
    BY <2>1
<1> QED
  BY <1>1, <1>2

LEMMA AnsweredRight ==
  ASSUME CacheShape, BehindShape, TableInv, NEW v \in View, PageAnswered(v)
  PROVE  TableInv'
<1>0. PICK q \in Cached : q = cache[v]
  BY DEF CacheShape
<1>1. PICK s : q = cache[v] /\ s = behind[v]
  BY <1>0
<1>2. PICK a \in q.answer, c \in Cached :
        /\ a \in Fetched /\ cache' = [cache EXCEPT ![v] = c]
        /\ c.answer = {} /\ c.fetch \in {"idle", "all"} /\ Base(c) = Append(Base(q), a.page)
        /\ c.fetch = "all" => q.fetch = "all" /\ c.pages = q.pages
        /\ c.fetch = "idle" => c.pages = Base(c)
  BY <1>1, Answers
<1>3. Calm /\ q.fetch # "idle" /\ RightSoFar(v, q, s)
  <2>1. q.fetch # "idle"
    BY <1>1, <1>2 DEF TableInv, RightSoFar
  <2> QED
    BY <1>1, <2>1, CalmCache DEF PageAnswered, server, TableInv
<1>4. PICK t : /\ t = IF s = "reading" /\ c.fetch = "idle" THEN "no" ELSE s
               /\ behind' = [behind EXCEPT ![v] = t]
  <2>1. cache'[v] = c
    BY <1>2 DEF CacheShape
  <2>2. behind' = IF s = "reading" /\ c.fetch = "idle"
                  THEN [behind EXCEPT ![v] = "no"] ELSE behind
    BY <1>1, <2>1 DEF PageAnswered
  <2>3. behind = [behind EXCEPT ![v] = s]
    BY <1>1 DEF BehindShape
  <2> QED
    BY <2>2, <2>3
<1>5. s # "yes" => PagesRight(v, Base(c))
  <2>1. PICK b, P : b = Base(q) /\ P = a.page
    OBVIOUS
  <2>2. b \in Seq(SUBSET Row) /\ P \in SUBSET Row
    BY <1>2, <2>1, PagesGrow DEF Fetched
  <2>3. s # "yes" => PagesRight(v, b) /\ Right(v, Len(b), P)
    BY <1>2, <1>3, <2>1 DEF RightSoFar
  <2> QED
    BY <1>2, <2>1, <2>2, <2>3, AppendRight
<1>6. RightSoFar(v, c, t)
  BY <1>2, <1>3, <1>4, <1>5 DEF RightSoFar
<1> QED
  BY <1>2, <1>3, <1>4, <1>6, Replaces

LEMMA FailedRight ==
  ASSUME CacheShape, BehindShape, TableInv, NEW v \in View, FetchFails(v)
  PROVE  TableInv'
<1>0. PICK q \in Cached : q = cache[v]
  BY DEF CacheShape
<1>1. PICK s, t : q = cache[v] /\ s = behind[v] /\ t = IF s = "reading" THEN "yes" ELSE s
  BY <1>0
<1> DEFINE c == [q EXCEPT !.fetch = "idle", !.got = <<>>, !.answer = {}, !.error = TRUE]
<1>2. cache' = [cache EXCEPT ![v] = c] /\ behind' = [behind EXCEPT ![v] = t] /\ Calm
  BY <1>1, CalmCache DEF FetchFails, CallOff, server, BehindShape
<1>3. c.answer = {} /\ c.fetch = "idle" /\ c.pages = q.pages
  BY GivesUp
<1> HIDE DEF c
<1>4. RightSoFar(v, c, t)
  BY <1>1, <1>3 DEF RightSoFar, TableInv
<1> QED
  BY <1>2, <1>4, Replaces

LEMMA NextRight ==
  ASSUME CacheShape, BehindShape, TableInv, NextPage
  PROVE  TableInv'
<1>0. PICK v \in View, q \in Cached : v = view /\ q = cache[v]
  BY DEF CacheShape
<1>1. PICK s, t : /\ v = view /\ q = cache[v] /\ s = behind[v]
                  /\ t = IF s = "reading" THEN "yes" ELSE s
  BY <1>0
<1> DEFINE c == [q EXCEPT !.fetch = "next", !.got = <<>>, !.answer = {}]
<1>2. cache' = [cache EXCEPT ![v] = c] /\ behind' = [behind EXCEPT ![v] = t] /\ Calm
  BY <1>1, CalmCache DEF NextPage, CallOff, server, BehindShape
<1>3. c.pages = q.pages /\ c.answer = {} /\ c.fetch = "next"
  BY AsksNext
<1> HIDE DEF c
<1>4. Base(c) = q.pages
  BY <1>3 DEF Base
<1>5. s = "no" => PagesRight(v, q.pages)
  BY <1>1 DEF TableInv, RightSoFar
<1>6. t # "reading" /\ (t # "yes" => s = "no") /\ (t = "no" => s = "no")
  BY <1>1 DEF BehindShape
<1>7. RightSoFar(v, c, t)
  BY <1>3, <1>4, <1>5, <1>6 DEF RightSoFar
<1> QED
  BY <1>2, <1>7, Replaces

LEMMA TableNext ==
  ASSUME ViewShape, TableInv, [Next]_vars
  PROVE  TableInv'
<1>1. CacheShape /\ BehindShape /\ Work /\ view \in View
  BY DEF ViewShape, CacheShape
<1>2. ASSUME NEW v \in View, SwitchView(v) PROVE TableInv'
  <2>1. Calm
    BY <1>2, CalmCache DEF SwitchView, server
  <2>2. CASE cache[v].fetch = "idle"
    BY <1>1, <1>2, <2>1, <2>2, StartsAfresh DEF SwitchView
  <2>3. CASE cache[v].fetch # "idle"
    BY <1>2, <2>1, <2>3, StaysAsItIs DEF SwitchView
  <2> QED
    BY <2>2, <2>3
<1>3. CASE Focus
  <2>1. Calm
    BY <1>3, CalmCache DEF Focus, server
  <2> QED
    BY <1>1, <1>3, <2>1, StartsAfresh DEF Focus
<1>4. ASSUME NEW r \in Shown(view), handleDelete(r) PROVE TableInv'
  <2>1. UNCHANGED <<rows, lost, batch, cache, behind>> /\ r.id \notin DOMAIN deletes
        /\ deletes' = [i \in DOMAIN deletes \cup {r.id} |->
                         IF i = r.id THEN "sent" ELSE deletes[i]]
    BY <1>4 DEF handleDelete, server
  <2>2. Calm
    BY <2>1 DEF Calm, Known, AtRest
  <2> QED
    BY <2>1, <2>2, StaysAsItIs
<1>5. ASSUME NEW i \in DOMAIN deletes, DeleteServed(i) PROVE TableInv'
  <2>1. /\ UNCHANGED <<lost, batch, cache, behind>>
        /\ deletes' = [deletes EXCEPT ![i] = IF \E r \in rows : r.id = i
                                             THEN "done" ELSE "refused"]
        /\ rows' = {r \in rows : r.id # i} /\ deletes[i] = "sent"
    BY <1>5 DEF DeleteServed, watch
  <2>2. ASSUME NEW r, Known(r) PROVE Known(r)'
    BY <1>5, <2>1, <2>2 DEF Known
  <2>3. ASSUME AtRest' PROVE AtRest /\ rows' = rows
    BY <1>5, <2>1, <2>3 DEF AtRest
  <2> QED
    BY <2>1, <2>2, <2>3, StaysAsItIs DEF Calm
<1>6. ASSUME NEW i \in DOMAIN deletes, DeleteAnswered(i) PROVE TableInv'
  <2>1. UNCHANGED <<rows, lost, batch>> /\ deletes' = [j \in DOMAIN deletes \ {i} |-> deletes[j]]
    BY <1>6 DEF DeleteAnswered, Without, server
  <2>2. CASE deletes[i] = "done"
    BY <1>1, <1>6, <2>2, InvalidatesTable DEF DeleteAnswered
  <2>3. CASE deletes[i] = "refused"
    <3>1. UNCHANGED <<cache, behind>>
      BY <1>6, <2>3 DEF DeleteAnswered
    <3>2. Calm
      BY <2>1, <2>3 DEF Calm, Known, AtRest
    <3> QED
      BY <3>1, <3>2, StaysAsItIs
  <2> QED
    BY <1>6, <2>2, <2>3 DEF DeleteAnswered
<1>7. ASSUME NEW i \in DOMAIN deletes, DeleteFails(i) PROVE TableInv'
  <2>1. /\ UNCHANGED <<rows, batch, cache, behind>>
        /\ deletes' = [j \in DOMAIN deletes \ {i} |-> deletes[j]]
        /\ lost' = IF deletes[i] = "done" THEN lost \cup {i} ELSE lost
    BY <1>7 DEF DeleteFails, Without, server
  <2>2. Calm
    BY <2>1 DEF Calm, Known, AtRest
  <2> QED
    BY <2>1, <2>2, StaysAsItIs
<1>8. ASSUME NEW b \in Batch, NEW S, StartUpload(b, S) PROVE TableInv'
  <2>1. UNCHANGED <<rows, deletes, lost, cache, behind>>
    BY <1>8 DEF StartUpload, server
  <2>2. batch'[b].pc # "idle"
    BY <1>1, <1>8 DEF StartUpload, Work, Shaped, NoBatch
  <2>3. Calm
    BY <2>1, <2>2 DEF Calm, Known, AtRest
  <2> QED
    BY <2>1, <2>3, StaysAsItIs
<1>9. ASSUME NEW b \in Batch, Upload(b) PROVE TableInv'
  <2>1. CASE invalidateQueries
    BY <1>1, <2>1, InvalidatesTable DEF ViewShape
  <2>2. CASE UNCHANGED <<cache, behind>> /\ batch'[b].pc # "idle"
    <3>1. UNCHANGED <<deletes, lost>> /\ rows \subseteq rows'
      BY <1>1, <1>9, UploadEffects
    <3>2. Calm
      BY <2>2, <3>1 DEF Calm, Known, AtRest
    <3> QED
      BY <2>2, <3>2, StaysAsItIs
  <2> QED
    BY <1>1, <1>9, <2>1, <2>2, UploadEffects
<1>10. ASSUME UNCHANGED <<rows, deletes, lost, batch, cache, behind>> PROVE TableInv'
  BY <1>10, CalmCache, StaysAsItIs
<1>11. ASSUME NEW s, Expire(s) PROVE TableInv'
  BY <1>10, <1>11 DEF Expire
<1>12. CASE UNCHANGED vars
  BY <1>10, <1>12 DEF vars
<1> QED
  BY <1>1, <1>2, <1>3, <1>4, <1>5, <1>6, <1>7, <1>8, <1>9, <1>11, <1>12,
     ServedRight, AnsweredRight, FailedRight, NextRight DEF Next

LEMMA TableInit == Init => TableInv
<1> SUFFICES ASSUME Init, NEW v \in View PROVE RightSoFar(v, cache[v], behind[v])
  BY DEF TableInv
<1>1. PagesRight(v, Empty.pages)
  BY EmptyCached DEF PagesRight
<1>2. PICK e \in Cached : e = Empty
  BY EmptyCached
<1>3. RightSoFar(v, Restarted(e), "no")
  BY <1>1, <1>2, FreshRight
<1>4. RightSoFar(v, e, "no")
  BY <1>1, <1>2, EmptyCached DEF RightSoFar
<1> QED
  BY <1>2, <1>3, <1>4 DEF Init

\* When the user's mutations and the view's fetches are over, the table is the
\* beginning of the listing, unless the view is behind: however uploads, deletes,
\* scrolling and switching met the fetches, stale pages stay only where an
\* invalidation met a first load or a view off the screen, or scrolling called
\* its refetch off, for any number of batches, views and files and pages of any
\* size (App.tsx, the query cache).
THEOREM TableSettles == Spec => []TableFresh
<1>1. Init => TableInv
  BY TableInit
<1>2. ViewShape /\ TableInv /\ [Next]_vars => TableInv'
  BY TableNext
<1>3. ViewShape /\ TableInv => TableFresh
  <2> SUFFICES ASSUME ViewShape, TableInv, Visible, cache[view].fetch = "idle", ~Mutating,
                      behind[view] = "no"
               PROVE  IF lost = {}
                      THEN Shown(view) = UNION {Page(view, k) : k \in 0..(Len(cache[view].pages) - 1)}
                      ELSE \A r \in Shown(view) : r \in rows \/ r.id \in lost
    BY DEF TableFresh
  <2>1. DOMAIN deletes = {} /\ \A b \in Batch : batch[b].pc = "idle"
    BY DEF Mutating
  <2>2. PICK pages \in Seq(SUBSET Row) : pages = cache[view].pages
    BY DEF ViewShape, CacheShape, Cached
  <2>3. \A k \in DOMAIN pages : Right(view, k - 1, pages[k])
    <3>1. view \in View
      BY DEF ViewShape, CacheShape
    <3> QED
      BY <2>2, <3>1 DEF TableInv, RightSoFar, PagesRight
  <2>4. CASE lost = {}
    <3>1. \A k \in DOMAIN pages : pages[k] = Page(view, k - 1)
      BY <2>1, <2>3, <2>4 DEF Right, AtRest
    <3>2. DOMAIN pages = 1..Len(pages) /\ Len(pages) \in Nat
      BY <2>2
    <3>3. {pages[k] : k \in DOMAIN pages} = {Page(view, k) : k \in 0..(Len(pages) - 1)}
      <4>1. \A k \in DOMAIN pages : k - 1 \in 0..(Len(pages) - 1)
        BY <3>2
      <4>2. \A k \in 0..(Len(pages) - 1) : k + 1 \in DOMAIN pages /\ (k + 1) - 1 = k
        BY <3>2
      <4> QED
        BY <3>1, <4>1, <4>2
    <3> QED
      BY <2>2, <2>4, <3>3 DEF Shown
  <2>5. CASE lost # {}
    BY <2>1, <2>2, <2>3, <2>5 DEF Right, Known, Shown
  <2> QED
    BY <2>4, <2>5
<1> QED
  BY <1>1, <1>2, <1>3, ViewShapeCorrect, PTL DEF Spec
==============================================================================
