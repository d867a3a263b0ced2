\* Both callers of reconcile(), the user, another device, and every fault.
SPECIFICATION Spec
CONSTANTS
  poll = poll
  watcher = watcher
  Trigger = {poll, watcher}
  Name <- Names
  Content = {"x","y"}
  NoFile = NoFile
  CopyName <- Copies
  Dedup <- Dedups
  Moves = {"create","edit","remove","reuse","put","drop","resolve","keepBoth","unreadable","stuck","netFail","restart"}
  MaxMoves = 5
CHECK_DEADLOCK FALSE
SYMMETRY Triggers
INVARIANTS
  TypeOK
PROPERTIES
  NoGhostEntries
  RemovalsAreTheUsers
  NothingResurrected
  DownloadsNotSkipped
  ConflictsWait
