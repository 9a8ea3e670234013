\* Two overlapping create requests; statements fail and time out, the process dies.
SPECIFICATION Spec
CONSTANTS
  Requests = {r1, r2}
  Institutions = {i1, i2}
  Keys = {k1, k2}
  Window = 3
  DayTicks = 3
  SeqModulus = 10
  MaxTime = 5
  Faults = TRUE
SYMMETRY Symmetry
INVARIANTS UniqueNumbers NoGaps DedupeWindow AnswersAreTrue
CHECK_DEADLOCK FALSE
