\* Calls of two uploads in any order and overlap, by clients that send their files'
\* chunks; statements and system calls fail, the process dies.
SPECIFICATION MCSteadySpec
CONSTANTS
  Uploads = {a1, a2}
  Cases = {c1}
  Bytes = {x, y}
  MaxLength = 2
  MaxChunks = 1
  Posts = {p1}
  Completes = {r1, r2}
  Faults = {"statement", "disk", "crash"}
  None = None
SYMMETRY Symmetry
INVARIANTS TypeOK NeverForeign
CHECK_DEADLOCK FALSE
