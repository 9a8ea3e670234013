\* Two overlapping requests that may fail, time out or lose the process, and an
\* active view that holds one of two cases.
SPECIFICATION MCFairSpec
CONSTANTS
  Cases = {c1, c2}
  Institutions = {i1, i2}
  Users = {u1, u2}
  StatusBodies = {"pending", "closed", "open"}
  Requests = {r1, r2}
  CreationTimes = {0, 2}
  ViewLimit = 1
  MaxTime = 2
  Faults = TRUE
  c1 = c1
  r1 = r1
INVARIANTS ActiveViewHidesClosed RowIsRecorded AssignmentsBalance
PROPERTIES NotFoundOrAlreadySo ForeignersChangeNothing EveryRequestEnds
CHECK_DEADLOCK FALSE
