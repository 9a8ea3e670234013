---------------------------- MODULE MCRestrictions --------------------------
\* Small instances of Restrictions for TLC.
EXTENDS Restrictions, TLC

Symmetry == Permutations(Applies) \cup Permutations(Checks)

\* Every check is of one candidate and institution.
Checked == CHOOSE t \in Tasks : t.kind = Purchase /\ t.hours = 0

\* An application that cannot bind the checks is one of the other type or of
\* the other institution, with a window of the default length.
MCInit ==
  /\ Init
  /\ \A k \in Checks : task[k] = Checked
  /\ \A a \in Applies :
       \/ task[a].subject = Checked.subject /\ task[a].kind = Purchase
       \/ task[a] = [Checked EXCEPT !.kind = "other"]
       \/ task[a] = [Checked EXCEPT !.subject = task[a].subject]
  /\ \E a \in Applies : task[a].subject = Checked.subject /\ task[a].kind = Purchase

MCSpec == MCInit /\ [][Next]_vars
=============================================================================
