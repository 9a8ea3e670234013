--------------------------- MODULE MCCaseCreation ---------------------------
\* Small instances of CaseCreation for TLC.
EXTENDS CaseCreation, TLC

\* Requests, institutions and keys are interchangeable.
Symmetry == Permutations(Requests) \cup Permutations(Institutions) \cup Permutations(Keys)
=============================================================================
