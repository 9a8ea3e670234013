------------------------ MODULE QualificationsProofs ------------------------
(***************************************************************************)
(* Proofs about Qualifications, for any number of calls and institutions   *)
(* and any bound on the dates, with faults.                                *)
(***************************************************************************)
EXTENDS Qualifications, TLAPS

-----------------------------------------------------------------------------
\* The invariant.

\* Dates that handlers read, or computed a status from, have come.
DatesRead ==
  /\ \A j \in Sweeps : sweepDay[j] <= today
  /\ \A q \in Creates : status[q] = "expired" => date[q].day <= today

\* A row is of a handler that computed its status, once and for all.
RowsComputed == \A q \in rows : pc[q] # "idle"

QualificationsInv ==
  /\ TypeOK
  /\ DatesRead
  /\ RowsComputed
  /\ SweepsExact
  /\ NeverExpiredEarly

LEMMA DaysNatural == Days \subseteq Nat
  BY ConstantsAssumption DEF Days

LEMMA StatusType == ASSUME NEW d PROVE StatusFor(d) \in Statuses
  BY DEF StatusFor, Statuses

LEMMA RowTypes ==
  ASSUME TypeOK, NEW q \in Creates
  PROVE  /\ row[q].expiry \in Nat /\ row[q].status \in Statuses
         /\ writer[q].swept \in Nat \cup {Never}
         /\ today \in Nat
  BY DaysNatural DEF TypeOK

LEMMA DateType ==
  ASSUME TypeOK, NEW c \in Creates \cup Renewals
  PROVE  date[c].day \in Days /\ date[c].day \in Nat
<1>1. 0 \in Days
  BY ConstantsAssumption DEF Days
<1>2. date[c] \in Dates
  BY DEF TypeOK
<1>3. date[c].day \in Days
  BY <1>1, <1>2 DEF Dates
<1> QED BY <1>3, DaysNatural

\* On arrival nothing is swept.
LEMMA ArrivalIdle ==
  ASSUME NEW c, Arrival(c)
  PROVE  UNCHANGED <<row, writer>>
  BY DEF Arrival, ScopeOnArrival

-----------------------------------------------------------------------------
\* The writing statements.

LEMMA SweepType ==
  ASSUME TypeOK, NEW i, NEW day \in Days, ExpireOverdue(i, day)
  PROVE  /\ row' \in [Creates -> [expiry : Days, status : Statuses]]
         /\ writer' \in [Creates -> [by : Creates \cup Renewals, on : Days, was : Statuses,
                                   swept : Days \cup {Never}]]
<1>1. \A q \in Creates : AfterSweep(q, i, day) \in [expiry : Days, status : Statuses]
  BY DEF TypeOK, AfterSweep, Statuses
<1>2. \A q \in Creates : writer[q] \in [by : Creates \cup Renewals, on : Days, was : Statuses,
                                      swept : Days \cup {Never}]
  BY DEF TypeOK
<1> QED BY <1>1, <1>2 DEF ExpireOverdue

LEMMA WriteType ==
  ASSUME TypeOK, NEW c \in Calls, Write(c)
  PROVE  /\ rows' \subseteq Creates
         /\ row' \in [Creates -> [expiry : Days, status : Statuses]]
         /\ writer' \in [Creates -> [by : Creates \cup Renewals, on : Days, was : Statuses,
                                   swept : Days \cup {Never}]]
<1>1. CASE c \in Creates /\ WriteNew(c)
  BY <1>1, DateType DEF WriteNew, TypeOK, Statuses
<1>2. CASE c \in Sweeps /\ ExpireOverdue(inst[c], sweepDay[c]) /\ UNCHANGED rows
  BY <1>2, SweepType DEF TypeOK
<1>3. CASE c \in Renewals /\ WriteRenewal(c)
  BY <1>3, DateType DEF WriteRenewal, TypeOK, Statuses
<1> QED BY <1>1, <1>2, <1>3 DEF Write

\* A sweep, late or not, expires what is overdue at its date, and that alone.
LEMMA SweepKeeps ==
  ASSUME TypeOK, SweepsExact, NeverExpiredEarly, NEW i, NEW day \in Days, day <= today,
         ExpireOverdue(i, day), UNCHANGED <<today, status, inst, rows>>
  PROVE  SweepsExact' /\ NeverExpiredEarly'
<1> SUFFICES ASSUME NEW q \in rows
             PROVE  /\ /\ writer'[q].by # q \/ status[q] = "active"
                       => (row'[q].status = "expired" <=> row'[q].expiry < writer'[q].swept)
                    /\ row'[q].status = "expired" =>
                         \/ row'[q].expiry < today
                         \/ row'[q].expiry = today /\ status[q] = "expired" /\ writer'[q].by = q
  BY DEF SweepsExact, NeverExpiredEarly, Overdue
<1>1. q \in Creates /\ day \in Nat
  BY DaysNatural DEF TypeOK
<1>2. row'[q] = AfterSweep(q, i, day)
  BY <1>1 DEF ExpireOverdue
<1>3. writer'[q] = IF inst[q] = i /\ day > writer[q].swept
                   THEN [writer[q] EXCEPT !.swept = day] ELSE writer[q]
  BY <1>1 DEF ExpireOverdue
<1>4. /\ row[q] \in [expiry : Days, status : Statuses]
      /\ writer[q] \in [by : Creates \cup Renewals, on : Days, was : Statuses,
                      swept : Days \cup {Never}]
  BY <1>1 DEF TypeOK
<1>5. writer'[q].by = writer[q].by
  BY <1>3, <1>4
<1>6. /\ writer[q].by # q \/ status[q] = "active"
         => (row[q].status = "expired" <=> row[q].expiry < writer[q].swept)
      /\ row[q].status = "expired" =>
           \/ row[q].expiry < today
           \/ row[q].expiry = today /\ status[q] = "expired" /\ writer[q].by = q
  BY DEF SweepsExact, NeverExpiredEarly, Overdue
<1>7. CASE inst[q] # i
  BY <1>2, <1>3, <1>6, <1>7 DEF AfterSweep
<1>8. CASE inst[q] = i
  <2>1. /\ row'[q].expiry = row[q].expiry
        /\ row'[q].status = "expired" <=> row[q].status = "expired" \/ row[q].expiry < day
    BY <1>2, <1>4, <1>8 DEF AfterSweep, Active, Overdue, Statuses
  <2>2. writer'[q].swept = IF day > writer[q].swept THEN day ELSE writer[q].swept
    BY <1>3, <1>4, <1>8
  <2>3. row[q].expiry \in Nat /\ writer[q].swept \in Int /\ today \in Nat
    BY <1>1, RowTypes DEF Never
  <2> QED BY <1>1, <1>5, <1>6, <2>1, <2>2, <2>3
<1> QED BY <1>7, <1>8

LEMMA WriteKeeps ==
  ASSUME QualificationsInv, NEW c \in Calls, Write(c), UNCHANGED <<today, given, status, sweepDay>>
  PROVE  SweepsExact' /\ NeverExpiredEarly'
<1> USE DEF given
<1>t. TypeOK /\ DatesRead /\ SweepsExact /\ NeverExpiredEarly
  BY DEF QualificationsInv
<1>1. CASE c \in Creates /\ WriteNew(c)
  <2>1. /\ row'[c] = [expiry |-> date[c].day, status |-> status[c]]
        /\ writer'[c].by = c /\ writer'[c].swept = Never
        /\ \A q \in Creates \ {c} : row'[q] = row[q] /\ writer'[q] = writer[q]
    BY <1>t, <1>1 DEF WriteNew, TypeOK
  <2>2. date[c].day \in Nat /\ today \in Nat
    BY <1>t, <1>1, DateType, DaysNatural DEF TypeOK
  <2>3. \A q \in rows' : q = c \/ (q \in rows /\ q \in Creates \ {c})
    BY <1>t, <1>1 DEF WriteNew, TypeOK
  <2>4. SweepsExact'
    BY <1>t, <2>1, <2>2, <2>3 DEF SweepsExact, Overdue, Never
  <2>5. NeverExpiredEarly'
    BY <1>t, <1>1, <2>1, <2>2, <2>3 DEF NeverExpiredEarly, DatesRead
  <2> QED BY <2>4, <2>5
<1>2. CASE c \in Sweeps /\ ExpireOverdue(inst[c], sweepDay[c]) /\ UNCHANGED rows
  BY <1>t, <1>2, SweepKeeps DEF DatesRead, TypeOK
<1>3. CASE c \in Renewals /\ WriteRenewal(c)
  <2> DEFINE t == target[c]
  <2>1. /\ row'[t] = [expiry |-> date[c].day, status |-> "active"]
        /\ writer'[t].swept = Never
        /\ \A q \in Creates \ {t} : row'[q] = row[q] /\ writer'[q] = writer[q]
        /\ rows' = rows /\ rows \subseteq Creates
    BY <1>t, <1>3 DEF WriteRenewal, TypeOK
  <2>2. date[c].day \in Nat
    BY <1>t, <1>3, DateType
  <2>3. SweepsExact'
    BY <1>t, <2>1, <2>2 DEF SweepsExact, Overdue, Never
  <2>4. NeverExpiredEarly'
    BY <1>t, <2>1 DEF NeverExpiredEarly
  <2> QED BY <2>3, <2>4
<1> QED BY <1>1, <1>2, <1>3 DEF Write

-----------------------------------------------------------------------------
LEMMA InvInit == Init => QualificationsInv
<1> SUFFICES ASSUME Init PROVE QualificationsInv
  OBVIOUS
<1>1. TypeOK
  BY ConstantsAssumption DEF Init, TypeOK, Days, Statuses, Never
<1>2. DatesRead /\ RowsComputed /\ SweepsExact /\ NeverExpiredEarly
  BY DEF Init, DatesRead, RowsComputed, SweepsExact, NeverExpiredEarly
<1> QED BY <1>1, <1>2 DEF QualificationsInv

LEMMA StepType ==
  TypeOK /\ [Next]_vars => TypeOK'
<1> SUFFICES ASSUME TypeOK, [Next]_vars PROVE TypeOK'
  OBVIOUS
<1> USE DEF Goto, Answer, given, table, history
<1>1. ASSUME NEW c \in Calls, ComputeStatus(c) PROVE TypeOK'
  BY <1>1, ArrivalIdle, StatusType DEF ComputeStatus, TypeOK
<1>2. ASSUME NEW c \in Calls, CandidateNotFound(c) PROVE TypeOK'
  BY <1>2, ArrivalIdle DEF CandidateNotFound, TypeOK
<1>3. ASSUME NEW c \in Calls, StartSweep(c) PROVE TypeOK'
  BY <1>3, ArrivalIdle DEF StartSweep, TypeOK
<1>4. ASSUME NEW c \in Calls, ReadStatus(c) PROVE TypeOK'
  BY <1>4, ArrivalIdle DEF ReadStatus, TypeOK
<1>5. ASSUME NEW c \in Calls, RefuseReactivation(c) PROVE TypeOK'
  BY <1>5, ArrivalIdle DEF RefuseReactivation, TypeOK
<1>6. ASSUME NEW c \in Calls, ListQualifications(c) PROVE TypeOK'
  BY <1>6, ArrivalIdle DEF ListQualifications, TypeOK
<1>7. ASSUME NEW c \in Calls, Execute(c) PROVE TypeOK'
  BY <1>7, WriteType DEF Execute, TypeOK
<1>8. ASSUME NEW c \in Calls, ExecuteFails(c) PROVE TypeOK'
  BY <1>8 DEF ExecuteFails, TypeOK
<1>9. ASSUME NEW c \in Calls, ExecuteTimesOut(c) PROVE TypeOK'
  BY <1>9 DEF ExecuteTimesOut, TypeOK
<1>10. ASSUME NEW c \in Calls, CommitLate(c) PROVE TypeOK'
  BY <1>10, WriteType DEF CommitLate, TypeOK
<1>11. ASSUME NEW c \in Calls, AppendAudit(c) PROVE TypeOK'
  BY <1>11 DEF AppendAudit, TypeOK
<1>12. ASSUME Crash PROVE TypeOK'
  BY <1>12 DEF Crash, TypeOK
<1>13. ASSUME NextDay PROVE TypeOK'
  BY <1>13, ConstantsAssumption DEF NextDay, TypeOK, Days
<1>14. ASSUME UNCHANGED vars PROVE TypeOK'
  BY <1>14 DEF vars, TypeOK
<1> QED BY <1>1, <1>2, <1>3, <1>4, <1>5, <1>6, <1>7, <1>8, <1>9, <1>10, <1>11, <1>12, <1>13,
           <1>14 DEF Next, Handle

\* Steps that neither write rows nor compute a status or a date.
LEMMA MoveKeeps ==
  ASSUME QualificationsInv, UNCHANGED <<today, date, status, sweepDay, rows, row, writer>>,
         \A c \in Calls : pc[c] # "idle" => pc'[c] # "idle"
  PROVE  DatesRead' /\ RowsComputed' /\ SweepsExact' /\ NeverExpiredEarly'
<1>1. rows \subseteq Calls
  BY DEF QualificationsInv, TypeOK, Calls
<1> QED BY <1>1 DEF QualificationsInv, DatesRead, RowsComputed, SweepsExact, NeverExpiredEarly,
           Overdue

LEMMA StepInv ==
  QualificationsInv /\ [Next]_vars => QualificationsInv'
<1> SUFFICES ASSUME QualificationsInv, [Next]_vars PROVE QualificationsInv'
  OBVIOUS
<1>t. TypeOK /\ TypeOK' /\ DatesRead /\ RowsComputed /\ SweepsExact /\ NeverExpiredEarly
  BY StepType DEF QualificationsInv
<1>p. pc \in [Calls -> {"idle", "write", "audit", "late", "done"}] /\ rows \subseteq Calls
  BY <1>t DEF TypeOK, Calls
<1> USE DEF Goto, Answer, given, table, history
<1> DEFINE Parts == DatesRead /\ RowsComputed /\ SweepsExact /\ NeverExpiredEarly
<1>1. ASSUME NEW c \in Calls, ComputeStatus(c) PROVE Parts'
  <2>1. UNCHANGED <<today, given, sweepDay, rows, row, writer>> /\ c \in Creates /\ c \notin rows
    BY <1>1, <1>t, ArrivalIdle DEF ComputeStatus, RowsComputed
  <2>2. status'[c] = "expired" => date[c].day <= today
    BY <1>1, <1>t, <2>1 DEF ComputeStatus, StatusFor, ExpiryPassed, TypeOK
  <2>3. \A q \in Creates \ {c} : status'[q] = status[q]
    BY <1>1, <1>t DEF ComputeStatus, TypeOK
  <2>4. RowsComputed'
    BY <1>1, <1>t, <1>p, <2>1 DEF ComputeStatus, RowsComputed
  <2>5. rows \subseteq Creates \ {c}
    BY <1>t, <2>1 DEF TypeOK
  <2>6. SweepsExact' /\ NeverExpiredEarly'
    BY <1>t, <2>1, <2>3, <2>5 DEF SweepsExact, NeverExpiredEarly, Overdue
  <2>7. DatesRead'
    BY <1>t, <2>1, <2>2, <2>3 DEF DatesRead
  <2> QED BY <2>4, <2>6, <2>7
<1>2. ASSUME NEW c \in Calls, CandidateNotFound(c) PROVE Parts'
  BY <1>2, <1>p, ArrivalIdle, MoveKeeps DEF CandidateNotFound
<1>3. ASSUME NEW c \in Calls, StartSweep(c) PROVE Parts'
  <2>1. UNCHANGED <<today, given, status, rows, row, writer>>
    BY <1>3, ArrivalIdle DEF StartSweep
  <2>2. today <= today
    BY <1>t, DaysNatural DEF TypeOK
  <2>3. \A j \in Sweeps : sweepDay'[j] <= today
    BY <1>3, <1>t, <2>2 DEF StartSweep, DatesRead, TypeOK
  <2>4. DatesRead'
    BY <1>t, <2>1, <2>3 DEF DatesRead
  <2>5. RowsComputed'
    BY <1>3, <1>t, <1>p, <2>1 DEF StartSweep, RowsComputed
  <2>6. SweepsExact' /\ NeverExpiredEarly'
    BY <1>t, <2>1 DEF SweepsExact, NeverExpiredEarly, Overdue
  <2> QED BY <2>4, <2>5, <2>6
<1>4. ASSUME NEW c \in Calls, ReadStatus(c) PROVE Parts'
  BY <1>4, <1>p, ArrivalIdle, MoveKeeps DEF ReadStatus
<1>5. ASSUME NEW c \in Calls, RefuseReactivation(c) PROVE Parts'
  BY <1>5, <1>p, ArrivalIdle, MoveKeeps DEF RefuseReactivation
<1>6. ASSUME NEW c \in Calls, ListQualifications(c) PROVE Parts'
  BY <1>6, <1>p, ArrivalIdle, MoveKeeps DEF ListQualifications
<1>7. ASSUME NEW c \in Calls, pc[c] \in {"write", "late"}, Write(c),
             \/ pc' = [pc EXCEPT ![c] = "audit"]
             \/ pc' = [pc EXCEPT ![c] = "done"],
             UNCHANGED <<today, given, status, sweepDay>>
      PROVE Parts'
  <2>1. SweepsExact' /\ NeverExpiredEarly'
    BY <1>7, WriteKeeps
  <2>2. DatesRead'
    BY <1>7, <1>t DEF DatesRead
  <2>3. rows' \subseteq rows \cup {c}
    BY <1>7 DEF Write, WriteNew, WriteRenewal
  <2>4. RowsComputed'
    BY <1>7, <1>t, <1>p, <2>3 DEF RowsComputed
  <2> QED BY <2>1, <2>2, <2>4
<1>8. ASSUME NEW c \in Calls, ExecuteFails(c) PROVE Parts'
  BY <1>8, <1>p, MoveKeeps DEF ExecuteFails
<1>9. ASSUME NEW c \in Calls, ExecuteTimesOut(c) PROVE Parts'
  BY <1>9, <1>p, MoveKeeps DEF ExecuteTimesOut
<1>10. ASSUME NEW c \in Calls, Execute(c) \/ CommitLate(c) PROVE Parts'
  BY <1>7, <1>10 DEF Execute, CommitLate
<1>11. ASSUME NEW c \in Calls, AppendAudit(c) PROVE Parts'
  BY <1>11, <1>p, MoveKeeps DEF AppendAudit
<1>12. ASSUME Crash PROVE Parts'
  BY <1>12, <1>p, MoveKeeps DEF Crash
<1>13. ASSUME NextDay PROVE Parts'
  <2>1. today' = today + 1 /\ UNCHANGED <<given, pc, status, sweepDay, table, writer>>
    BY <1>13 DEF NextDay
  <2>2. /\ \A j \in Sweeps : sweepDay[j] \in Nat
        /\ \A q \in Creates : date[q].day \in Nat
        /\ today \in Nat
    BY <1>t, DateType, DaysNatural DEF TypeOK
  <2>3. DatesRead'
    BY <1>t, <2>1, <2>2 DEF DatesRead
  <2>4. RowsComputed' /\ SweepsExact'
    BY <1>t, <2>1 DEF RowsComputed, SweepsExact, Overdue
  <2>5. rows \subseteq Creates /\ \A q \in Creates : row[q].expiry \in Nat
    BY <1>t, RowTypes DEF TypeOK
  <2>6. NeverExpiredEarly'
    BY <1>t, <2>1, <2>2, <2>5 DEF NeverExpiredEarly
  <2> QED BY <2>3, <2>4, <2>6
<1>14. ASSUME UNCHANGED vars PROVE Parts'
  BY <1>14, MoveKeeps DEF vars
<1> HIDE DEF Parts
<1>q. Parts'
  BY <1>1, <1>2, <1>3, <1>4, <1>5, <1>6, <1>8, <1>9, <1>10, <1>11, <1>12, <1>13, <1>14
     DEF Next, Handle
<1> QED BY <1>t, <1>q DEF Parts, QualificationsInv

-----------------------------------------------------------------------------
THEOREM QualificationsInvariant == Spec => []QualificationsInv
  BY InvInit, StepInv, PTL DEF Spec

\* The variables keep their types, through every date, sweep and crash.
THEOREM TypeCorrect == Spec => []TypeOK
<1>1. QualificationsInv => TypeOK
  BY DEF QualificationsInv
<1> QED BY <1>1, QualificationsInvariant, PTL

\* Sweeps expire all that is past their date and nothing else, in whatever order
\* they take effect (complianceExpireQualifications).
THEOREM SweepsAreExact == Spec => []SweepsExact
<1>1. QualificationsInv => SweepsExact
  BY DEF QualificationsInv
<1> QED BY <1>1, QualificationsInvariant, PTL

\* Nobody's qualification is marked expired before its date
\* (checkQualificationExpiry, complianceExpireQualifications).
THEOREM ExpiredInTime == Spec => []NeverExpiredEarly
<1>1. QualificationsInv => NeverExpiredEarly
  BY DEF QualificationsInv
<1> QED BY <1>1, QualificationsInvariant, PTL
=============================================================================
