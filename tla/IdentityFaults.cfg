\* One login and two calls; statements fail, the process dies at any point.
SPECIFICATION Spec
CONSTANTS
  Logins = {l1}
  Calls = {c1, c2}
  TTL = 2
  MaxTime = 5
  Faults = {"statement", "crash", "bootcrash"}
SYMMETRY Symmetry
INVARIANTS AdmittedWithinTTL RevocationHolds
PROPERTIES RestartKeepsSessions
CHECK_DEADLOCK FALSE
