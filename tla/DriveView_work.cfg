\* Two batches, deletes, scrolling and switching between two views, with every fault.
SPECIFICATION Spec
CONSTANTS
  b1 = b1
  b2 = b2
  File = {"big","small"}
  Big = {"big"}
  Filtered = {"small"}
  View <- Views
  Default <- Plain
  Batch = {b1, b2}
  ChunkCount = 2
  PageSize = 1
  Initially <- Opened
  Moves = {"delete","upload","switch","focus","netFail","refuse","expire"}
  MaxMoves = 3
CHECK_DEADLOCK FALSE
SYMMETRY Batches
INVARIANTS
  TypeOK
  TableFresh
  SessionsFreed
PROPERTIES
  AllAccounted
