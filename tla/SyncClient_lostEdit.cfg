\* The user edits twice while the first edit is still being reported back.
SPECIFICATION Spec
CONSTANTS
  poll = poll
  watcher = watcher
  Trigger = {poll}
  Name <- Names
  Content = {"x","y","z"}
  NoFile = NoFile
  CopyName <- Copies
  Dedup <- Dedups
  Moves = {"create","edit"}
  MaxMoves = 4
CHECK_DEADLOCK FALSE
PROPERTIES
  UnsyncedWorkKept
