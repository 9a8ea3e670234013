\* Creations, closings and a list overlap; statements fail, time out and commit late.
SPECIFICATION MCSpec
CONSTANTS
  p1 = p1
  i1 = i1
  MaxOverlap = 2
  Creates = {p1, p2}
  Closes = {k1, k2}
  Lists = {l1}
  Institutions = {i1, i2}
  Limit = 1
  MaxTime = 1
  Faults = TRUE
SYMMETRY Symmetry
INVARIANTS PositionsTypeOK ListsTrue TrailDatesClosing
CHECK_DEADLOCK FALSE
