------------------------------- MODULE MCTags -------------------------------
\* Small instances of Tags for TLC.
EXTENDS Tags

\* Entities are interchangeable, so one assignment is of a fixed one; earlier
\* assignments left at most one tag.
MCInit ==
  /\ Init
  /\ task[CHOOSE a \in Assigns : TRUE].entity = CHOOSE e \in Entities : TRUE
  /\ \A e \in Entities : Len(last[e]) <= 1

MCSpec == MCInit /\ [][Next]_vars /\ Fairness
=============================================================================
