\* One completion at a time; system calls on files fail, the process dies.
SPECIFICATION MCSerialSpec
CONSTANTS
  Uploads = {a1, a2}
  Cases = {c1}
  Bytes = {x}
  MaxLength = 1
  MaxChunks = 1
  Posts = {p1}
  Completes = {r1, r2, r3}
  Faults = {"disk", "crash"}
  None = None
SYMMETRY Symmetry
INVARIANTS StoredIntact OnePerContent CompletionIdempotent
CHECK_DEADLOCK FALSE
