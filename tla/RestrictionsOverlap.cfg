\* Two applications and two checks overlap; statements fail, time out and commit late.
SPECIFICATION MCSpec
CONSTANTS
  Applies = {a1, a2}
  Checks = {k1, k2}
  Institutions = {i1, i2}
  Candidates = {p1}
  WindowHours = {0, 2, 3}
  Hour = 3
  DefaultHours = 1
  MaxDuration = 7
  MaxStamp = 12
  MinTime = 6
  MaxTime = 9
  Faults = TRUE
SYMMETRY Symmetry
INVARIANTS RestrictionBinds RefusalStands RefusalsJustified
CHECK_DEADLOCK FALSE
