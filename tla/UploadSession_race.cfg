\* Two calls race on one session with its timer, every fault included.
SPECIFICATION FairSpec
CONSTANTS
  s1 = s1
  s2 = s2
  c1 = c1
  c2 = c2
  c3 = c3
  NoHolder = NoHolder
  Session = {s1}
  Call = {c1, c2}
  MaxChunk = 2
  Faults = {"brokenBody", "createFails", "restart"}
CHECK_DEADLOCK FALSE
INVARIANTS
  TypeOK
  LockHeldByWorker
  ScratchAccountedFor
  StoredInOrder
PROPERTIES
  ClosedIsFinal
  CallsReturn
  SessionsEnd
