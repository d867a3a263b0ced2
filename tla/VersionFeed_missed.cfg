\* Two writers; a diff may overlap their transactions.
SPECIFICATION Spec
CONSTANTS
  w1 = w1
  w2 = w2
  d1 = d1
  d2 = d2
  Writer = {w1, w2}
  Device = {d1}
  MaxVersion = 4
CHECK_DEADLOCK FALSE
INVARIANTS
  NoMissedChange
