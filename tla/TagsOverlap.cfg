\* Two assignments overlap on the tags earlier ones left; two tags compete for a name.
SPECIFICATION MCSpec
CONSTANTS
  Tags = {t1, t2}
  Names = {n1}
  Entities = {e1, e2}
  Assigns = {a1, a2}
  MaxTags = 2
INVARIANTS AssignedWhole
PROPERTIES ChangesAtOnce AssignmentsEnd
CHECK_DEADLOCK FALSE
