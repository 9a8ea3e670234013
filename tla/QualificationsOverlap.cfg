\* Overlapping calls; statements fail, time out and commit late.
SPECIFICATION MCSpec
CONSTANTS
  Creates = {q1}
  Sweeps = {s1, s2}
  Renewals = {v1}
  Lists = {l1}
  Institutions = {i1, i2}
  LastDay = 1
  Faults = TRUE
SYMMETRY Symmetry
INVARIANTS TypeOK NeverExpiredEarly SweepsExact
CHECK_DEADLOCK FALSE
