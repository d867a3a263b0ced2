\* Two requests at once, enough uploads of one name to use up the rename budget,
\* and queries that may fail.
SPECIFICATION FairSpec
CONSTANTS
  r1 = r1
  r2 = r2
  r3 = r3
  Req = {r1, r2}
  User = {alice}
  Stem = {java}
  Previewable = {java}
  Content = {c1}
  MaxDedup = 1
  MaxUploads = 3
  MaxVersions = 4
  Faults = {"dbError"}
CHECK_DEADLOCK FALSE
INVARIANTS
  OneFatePerFile
  VersionsDistinct
  NoOrphanedBytes
PROPERTIES
  RequestsReturn
