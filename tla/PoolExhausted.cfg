\* Two connections; two completions, a plain call and a tag assignment.
SPECIFICATION PoolFairSpec
CONSTANTS
  Plains = {h1}
  Completions = {u1, u2}
  Assigns = {t1}
  Size = 2
INVARIANTS PoolTypeOK StallTakesPool
PROPERTIES EveryoneAnswered
CHECK_DEADLOCK FALSE
