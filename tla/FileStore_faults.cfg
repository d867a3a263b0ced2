\* Two requests, two owners, every fault except a lost commit acknowledgement.
SPECIFICATION Spec
CONSTANTS
  r1 = r1
  r2 = r2
  r3 = r3
  Req = {r1, r2}
  User = {alice, bob}
  Stem = {java}
  Previewable = {java}
  Content = {c1, c2}
  MaxDedup = 1
  MaxUploads = 2
  MaxVersions = 4
  Faults = {"cancel", "dbError", "diskError", "crash"}
CHECK_DEADLOCK FALSE
SYMMETRY Slots
INVARIANTS
  TypeOK
  BytesBehindRows
  DownloadServesItsRow
PROPERTIES
  DeletionRecorded
