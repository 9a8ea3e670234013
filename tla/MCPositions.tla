---------------------------- MODULE MCPositions ----------------------------
(* Positions for TLC: a position all closings name, in the institution of  *)
(* the lists, and another entry, in the table of the lists; closings from  *)
(* another institution only where nothing else is foreign and positions    *)
(* are listed; no filter asks for open positions, which is what no filter  *)
(* gives; so many calls under way or late at once.                         *)
EXTENDS Positions, TLC

CONSTANTS p1, i1, MaxOverlap

Reduced ==
  /\ table[p1] = "positions" /\ inst[p1] = i1
  /\ \A k \in Closes : position[k] = p1
  /\ \A l \in Lists :
       /\ inst[l] = i1
       /\ \A p \in Creates \ {p1} : table[p] = table[l]
       /\ filter[l] \in IF table[l] = "profiles" THEN {"none"} ELSE {"none", "closed"}
  /\ \A c \in Creates \cup Lists :
       inst[c] # i1 \/ table[c] = "profiles" => \A k \in Closes : inst[k] = i1

Pending == {c \in Calls : at[c] \notin {"idle", "done"}}

MCInit == PositionsInit /\ Reduced

MCSpec == MCInit /\ [][PositionsNext /\ Cardinality(Pending') <= MaxOverlap]_positionsVars

Symmetry == Permutations(Closes)
=============================================================================
