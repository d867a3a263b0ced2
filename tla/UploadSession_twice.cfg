\* Two CompleteUpload calls for one session.
SPECIFICATION Spec
CONSTANTS
  s1 = s1
  s2 = s2
  c1 = c1
  c2 = c2
  c3 = c3
  NoHolder = NoHolder
  Session = {s1}
  Call = {c1, c2}
  MaxChunk = 1
  Faults = {}
CHECK_DEADLOCK FALSE
INVARIANTS
  CompletedOnce
