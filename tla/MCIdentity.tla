----------------------------- MODULE MCIdentity -----------------------------
\* Small instances of Identity for TLC.
EXTENDS Identity, TLC

Symmetry == Permutations(Logins) \cup Permutations(Calls)
=============================================================================
