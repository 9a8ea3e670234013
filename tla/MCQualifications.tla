--------------------------- MODULE MCQualifications -------------------------
\* Small instances of Qualifications for TLC.
EXTENDS Qualifications, TLC

Symmetry ==
  Permutations(Creates) \cup Permutations(Sweeps) \cup Permutations(Renewals)
    \cup Permutations(Institutions)

\* Lists are by callers of the institutions that have qualifications: those of
\* others are empty.
MCInit == Init /\ \A v \in Lists : \E q \in Creates : inst[v] = inst[q]

MCSpec == MCInit /\ [][Next]_vars
=============================================================================
