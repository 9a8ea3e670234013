---------------------------- MODULE CaseRegister ----------------------------
(***************************************************************************)
(* What case creation promises, with the duplicate test, the choice of the *)
(* number and the insertion as one step: a case enters the register with   *)
(* the next free serial of its institution and day, and only if no case    *)
(* with its key was created in the window before it.  Times are the        *)
(* half-second ticks of module CaseCreation, whose handler implements this *)
(* register as long as requests do not overlap.                            *)
(***************************************************************************)
EXTENDS Integers

CONSTANTS Requests, Institutions, Keys, Window, DayTicks, SeqModulus, MaxTime

VARIABLES clock, register

vars == <<clock, register>>

DayOf(t) == t \div DayTicks
Stored(t) == 2 * ((t + 1) \div 2)

Init == clock = 0 /\ register = {}

\* The serials taken by the cases of institution i stored under day d.
Taken(i, d) ==
  {e.seq % SeqModulus : e \in {e \in register : e.inst = i /\ DayOf(e.created) = d}}

Create(id, i, k) ==
  /\ \A e \in register : e.id # id
  /\ \E numbered \in 0 .. clock : \E created \in numbered .. clock :
       /\ \A e \in register :
            e.inst = i /\ e.key = k => created - e.created >= Window
       /\ \E m \in Taken(i, DayOf(numbered)) \cup {0} :
            /\ \A s \in Taken(i, DayOf(numbered)) : s <= m
            /\ register' = register \cup
                 {[id |-> id, inst |-> i, key |-> k, date |-> DayOf(numbered),
                   seq |-> m + 1, created |-> Stored(created)]}
  /\ UNCHANGED clock

Pass == clock < MaxTime /\ clock' = clock + 1 /\ UNCHANGED register

Next ==
  Pass \/ \E id \in Requests, i \in Institutions, k \in Keys : Create(id, i, k)

Spec == Init /\ [][Next]_vars
=============================================================================
