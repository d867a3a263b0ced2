\* The user, another device, every fault, and runs, resolutions and reloads between each other.
SPECIFICATION Spec
CONSTANTS
  home = home
  work = work
  Folder = {home, work}
  NoFolder = NoFolder
  Name <- Names
  x = x
  y = y
  Content = {x, y}
  NoFile = NoFile
  CopyName <- Copies
  Dedup <- Dedups
  Moves = {"create","edit","remove","put","drop","choose","resolve","unreadable","stuck","netFail","reload"}
  one = one
  two = two
  Slot = {one, two}
  MaxMoves = 4
CHECK_DEADLOCK FALSE
SYMMETRY Symmetry
INVARIANTS
  TypeOK
  NoGhostEntries
PROPERTIES
  RemovalsAreTheUsers
  NothingResurrected
  ConflictsWait
