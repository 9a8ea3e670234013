\* One create request at a time, no fault: the handler implements the register.
SPECIFICATION SerialSpec
CONSTANTS
  Requests = {r1, r2, r3}
  Institutions = {i1}
  Keys = {k1, k2}
  Window = 3
  DayTicks = 4
  SeqModulus = 2
  MaxTime = 6
  Faults = FALSE
INVARIANTS AuditComplete
PROPERTIES ImplementsRegister
CHECK_DEADLOCK FALSE
