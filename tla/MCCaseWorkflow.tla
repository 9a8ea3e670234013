--------------------------- MODULE MCCaseWorkflow ---------------------------
(* CaseWorkflow for TLC: cases of one institution, of which the requests   *)
(* of one caller name c1; and c1 as old as any other case, older or newer. *)
EXTENDS CaseWorkflow

CONSTANTS c1, r1

MCInit ==
  /\ Init
  /\ \A c, d \in Cases : owner[c] = owner[d]
  /\ owner[c1] = CHOOSE i \in Institutions : TRUE
  /\ task[r1].case = c1
  /\ 0 \in {created[c] : c \in Cases}

MCFairSpec == MCInit /\ [][Next]_vars /\ Fairness
=============================================================================
