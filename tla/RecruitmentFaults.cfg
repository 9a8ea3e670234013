\* Two imports, a creation and a search overlap; statements fail, contexts expire, the process dies.
SPECIFICATION MCSpec
CONSTANTS
  Creates = {c1}
  Imports = {j1, j2}
  Searches = {v1}
  Institutions = {i1, i2}
  Persons <- SomePersons
  Targets <- SomeTargets
  NoTarget = ""
  MaxRows = 2
  Faults = TRUE
INVARIANTS TypeOK ImportAccounted AuditTrue SearchExplained
PROPERTIES ImportsEnd
CHECK_DEADLOCK FALSE
