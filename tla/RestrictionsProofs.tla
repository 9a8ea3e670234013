------------------------- MODULE RestrictionsProofs -------------------------
(***************************************************************************)
(* Proofs about Restrictions, for any number of calls, institutions and    *)
(* candidates, any windowHours and any bounds of the clock, with faults.   *)
(***************************************************************************)
EXTENDS Restrictions, TLAPS

-----------------------------------------------------------------------------
\* Arithmetic of the window.

\* A length that fits into a time.Duration does not wrap.
LEMMA NoWrap ==
  ASSUME NEW n \in Nat, NEW m \in Nat \ {0}, n < m
  PROVE  ((n + m) % (2 * m)) - m = n
  OBVIOUS

\* One that does not fit gets shorter.
LEMMA WrapShortens ==
  ASSUME NEW n \in Nat, NEW m \in Nat \ {0}
  PROVE  ((n + m) % (2 * m)) - m <= n
  OBVIOUS

\* A time is stored within a third of a second.
LEMMA StoredNear ==
  ASSUME NEW t \in Int
  PROVE  Stored(t) \in Int /\ t <= Stored(t) + 1 /\ Stored(t) <= t + 1
  BY DEF Stored

\* The end of a window is an integer, not after what was asked for, save the
\* rounding, and not before it if that fits into a time.Duration.
LEMMA WindowEndType ==
  ASSUME TypeOK, NEW a \in Applies
  PROVE  /\ WindowEnd(a) \in Int
         /\ Asked(a) * Hour \in Nat
         /\ WindowEnd(a) <= asOf[a] + Asked(a) * Hour + 1
         /\ Asked(a) * Hour < MaxDuration => asOf[a] + Asked(a) * Hour <= WindowEnd(a) + 1
<1>1. a \in Calls /\ task[a].hours \in Int /\ asOf[a] \in Nat
  <2>1. a \in Calls /\ task[a] \in Tasks /\ asOf[a] \in MinTime .. MaxTime
    BY DEF TypeOK, Calls
  <2>2. task[a].hours \in WindowHours
    BY <2>1 DEF Tasks
  <2>3. \A t \in MinTime .. MaxTime : t \in Nat
    BY ConstantsAssumption
  <2> QED BY <2>1, <2>2, <2>3, ConstantsAssumption
<1>2. Asked(a) \in Nat
  BY <1>1, ConstantsAssumption DEF Asked
<1>3. Hour \in Nat /\ MaxDuration \in Nat \ {0}
  BY ConstantsAssumption
<1>4. PICK n \in Nat : n = Asked(a) * Hour
  BY <1>2, <1>3
<1>5. PICK d \in Int : d = ((n + MaxDuration) % (2 * MaxDuration)) - MaxDuration
  BY <1>3, <1>4
<1>6. d = Duration(Asked(a))
  BY <1>4, <1>5 DEF Duration
<1>7. d <= n /\ (n < MaxDuration => d = n)
  BY <1>3, <1>5, NoWrap, WrapShortens
<1>8. WindowEnd(a) = Stored(asOf[a] + d)
  BY <1>6 DEF WindowEnd
<1>9. /\ WindowEnd(a) \in Int
      /\ WindowEnd(a) <= asOf[a] + d + 1 /\ asOf[a] + d <= WindowEnd(a) + 1
  BY <1>1, <1>8, StoredNear
<1> QED BY <1>1, <1>4, <1>7, <1>9

-----------------------------------------------------------------------------
\* The invariant.

\* A row is of a handler past its INSERT, and its window ends at a TIMESTAMP.
RowsSettled == \A a \in rows : pc[a] \in {"audit", "done"} /\ Storable(a)

\* Handlers that may still write a row hold one that can be stored.
LateStorable ==
  /\ \A c \in Calls : pc[c] = "late" => c \in Applies /\ Storable(c)
  /\ \A c \in Calls : pc[c] = "insert" => c \in Applies
  /\ \A c \in Calls : pc[c] = "audit" => c \in rows
  /\ \A c \in Calls : pc[c] = "query" => c \in Checks

AnsweredDone ==
  /\ \A c \in Calls :
       /\ reply[c] # "none" => pc[c] \in {"late", "done"}
       /\ reply[c] \in {"200", "201"} => pc[c] = "done"
       /\ reply[c] = "201" => c \in rows
       /\ c \in Applies => reply[c] # "200"
  /\ \A k \in failed : pc[k] = "done"

\* What was answered before a check arrived stands in the table, or is an answer.
BeforeSettled ==
  \A k \in Checks : \A c \in before[k] :
    /\ reply[c] \in {"200", "201"}
    /\ c \in Applies => c \in rows

\* A time a check was given is the end of a row's window, and was ahead of it.
UntilOfRow ==
  \A k \in Checks :
    /\ until[k] # Allowed => reply[k] = "200" /\ k \notin failed
    /\ until[k] # Allowed =>
         \E a \in rows : /\ task[a].subject = task[k].subject /\ task[a].kind = Purchase
                         /\ WindowEnd(a) = until[k] /\ until[k] > asOf[k]

ControlInv == RowsSettled /\ LateStorable /\ AnsweredDone /\ BeforeSettled /\ UntilOfRow

RestrictionsInv == TypeOK /\ ControlInv /\ RestrictionBinds /\ RefusalStands


-----------------------------------------------------------------------------
\* Windows stand still once computed.

LEMMA WindowsKept ==
  ASSUME UNCHANGED <<task, asOf>>
  PROVE  \A a : /\ WindowEnd(a)' = WindowEnd(a) /\ Asked(a)' = Asked(a)
                /\ Storable(a)' <=> Storable(a)
  BY DEF WindowEnd, Asked, Duration, Stored, Storable

LEMMA WindowsKeptButOne ==
  ASSUME TypeOK, UNCHANGED task, NEW c \in Calls, asOf' = [asOf EXCEPT ![c] = now]
  PROVE  \A a \in Calls \ {c} :
           /\ asOf'[a] = asOf[a]
           /\ WindowEnd(a)' = WindowEnd(a) /\ Asked(a)' = Asked(a)
           /\ Storable(a)' <=> Storable(a)
<1>1. \A a \in Calls \ {c} : asOf'[a] = asOf[a]
  BY DEF TypeOK
<1> QED BY <1>1 DEF WindowEnd, Asked, Duration, Stored, Storable

-----------------------------------------------------------------------------
\* Types and where the handlers stand.

LEMMA InvInit == Init => RestrictionsInv
<1> SUFFICES ASSUME Init PROVE RestrictionsInv
  OBVIOUS
<1>1. TypeOK
  BY ConstantsAssumption DEF Init, TypeOK, Allowed
<1>2. ControlInv
  BY DEF Init, ControlInv, RowsSettled, LateStorable, AnsweredDone, BeforeSettled, UntilOfRow
<1>3. \A k \in Checks : reply[k] # "200"
  BY DEF Init, Calls
<1>4. RestrictionBinds /\ RefusalStands
  BY <1>3 DEF RestrictionBinds, RefusalStands, Allowing
<1> QED BY <1>1, <1>2, <1>4 DEF RestrictionsInv

LEMMA StepType ==
  TypeOK /\ LateStorable /\ [Next]_vars => TypeOK'
<1> SUFFICES ASSUME TypeOK, LateStorable, [Next]_vars PROVE TypeOK'
  OBVIOUS
<1> USE DEF TypeOK, Goto, Answer, table, answers
<1>1. ASSUME NEW c \in Calls, ComputeWindow(c) PROVE TypeOK'
  BY <1>1 DEF ComputeWindow
<1>2. ASSUME NEW c \in Calls, InsertRestriction(c) PROVE TypeOK'
  BY <1>2 DEF InsertRestriction, LateStorable
<1>3. ASSUME NEW c \in Calls, InsertFails(c) PROVE TypeOK'
  BY <1>3 DEF InsertFails
<1>4. ASSUME NEW c \in Calls, InsertTimesOut(c) PROVE TypeOK'
  BY <1>4 DEF InsertTimesOut
<1>5. ASSUME NEW c \in Calls, CommitLate(c) PROVE TypeOK'
  BY <1>5 DEF CommitLate, LateStorable
<1>6. ASSUME NEW c \in Calls, AppendAudit(c) PROVE TypeOK'
  BY <1>6 DEF AppendAudit, LateStorable
<1>7. ASSUME NEW c \in Calls, ReadClock(c) PROVE TypeOK'
  BY <1>7 DEF ReadClock, Answered
<1>8. ASSUME NEW c \in Calls, Refuse(c) PROVE TypeOK'
  <2>1. PICK e \in Ends(c) : until' = [until EXCEPT ![c] = e]
    BY <1>8 DEF Refuse
  <2>2. e \in Int
    BY <2>1, WindowEndType DEF Ends
  <2>3. until' \in [Checks -> Int]
    BY <2>1, <2>2
  <2> QED BY <1>8, <2>3 DEF Refuse
<1>9. ASSUME NEW c \in Calls, Allow(c) PROVE TypeOK'
  BY <1>9 DEF Allow
<1>10. ASSUME NEW c \in Calls, AllowOnError(c) PROVE TypeOK'
  BY <1>10 DEF AllowOnError, LateStorable
<1>11. ASSUME Crash PROVE TypeOK'
  BY <1>11 DEF Crash
<1>12. ASSUME Tick PROVE TypeOK'
  BY <1>12, ConstantsAssumption DEF Tick
<1>13. ASSUME UNCHANGED vars PROVE TypeOK'
  BY <1>13 DEF vars
<1> QED BY <1>1, <1>2, <1>3, <1>4, <1>5, <1>6, <1>7, <1>8, <1>9, <1>10, <1>11, <1>12,
           <1>13 DEF Next, Handle

LEMMA StepControl ==
  RestrictionsInv /\ [Next]_vars => ControlInv'
<1> SUFFICES ASSUME RestrictionsInv, [Next]_vars PROVE ControlInv'
  OBVIOUS
<1>t. TypeOK /\ TypeOK' /\ ControlInv
  BY StepType DEF RestrictionsInv, ControlInv
<1>d. Applies \cap Checks = {}
  BY ConstantsAssumption
<1> USE <1>t, <1>d DEF Goto, Answer, table, answers
<1> DEFINE Parts == /\ RowsSettled /\ LateStorable /\ AnsweredDone /\ BeforeSettled /\ UntilOfRow
<1>1. ASSUME NEW c \in Calls, ComputeWindow(c) PROVE Parts'
  <2>1. c \notin rows /\ (\A a \in Calls \ {c} : /\ WindowEnd(a)' = WindowEnd(a)
                                                /\ Storable(a)' <=> Storable(a))
    BY <1>1, WindowsKeptButOne DEF ComputeWindow, ControlInv, RowsSettled
  <2> QED BY <1>1, <2>1 DEF ComputeWindow, TypeOK, Calls, ControlInv, RowsSettled, LateStorable,
             AnsweredDone, BeforeSettled, UntilOfRow
<1>2. ASSUME NEW c \in Calls, InsertRestriction(c) PROVE Parts'
  BY <1>2, WindowsKept DEF InsertRestriction, TypeOK, Calls, ControlInv, RowsSettled,
     LateStorable, AnsweredDone, BeforeSettled, UntilOfRow
<1>3. ASSUME NEW c \in Calls, InsertFails(c) PROVE Parts'
  BY <1>3, WindowsKept DEF InsertFails, TypeOK, Calls, ControlInv, RowsSettled,
     LateStorable, AnsweredDone, BeforeSettled, UntilOfRow
<1>4. ASSUME NEW c \in Calls, InsertTimesOut(c) PROVE Parts'
  BY <1>4, WindowsKept DEF InsertTimesOut, TypeOK, Calls, ControlInv, RowsSettled,
     LateStorable, AnsweredDone, BeforeSettled, UntilOfRow
<1>5. ASSUME NEW c \in Calls, CommitLate(c) PROVE Parts'
  BY <1>5, WindowsKept DEF CommitLate, TypeOK, Calls, ControlInv, RowsSettled,
     LateStorable, AnsweredDone, BeforeSettled, UntilOfRow
<1>6. ASSUME NEW c \in Calls, AppendAudit(c) PROVE Parts'
  BY <1>6, WindowsKept DEF AppendAudit, TypeOK, Calls, ControlInv, RowsSettled,
     LateStorable, AnsweredDone, BeforeSettled, UntilOfRow
<1>7. ASSUME NEW c \in Calls, ReadClock(c) PROVE Parts'
  <2>1. c \notin rows /\ (\A a \in Calls \ {c} : /\ WindowEnd(a)' = WindowEnd(a)
                                                /\ Storable(a)' <=> Storable(a))
    BY <1>7, WindowsKeptButOne DEF ReadClock, ControlInv, RowsSettled
  <2> QED BY <1>7, <2>1 DEF ReadClock, Answered, TypeOK, Calls, ControlInv, RowsSettled,
             LateStorable, AnsweredDone, BeforeSettled, UntilOfRow
<1>8. ASSUME NEW c \in Calls, Refuse(c) PROVE Parts'
  <2>1. c \in Checks
    BY <1>8 DEF Refuse, ControlInv, LateStorable
  <2>2. PICK a \in rows : /\ task[a].subject = task[c].subject /\ task[a].kind = Purchase
                          /\ WindowEnd(a) > asOf[c]
                          /\ until' = [until EXCEPT ![c] = WindowEnd(a)]
    BY <1>8 DEF Refuse, Ends, Binds
  <2>3. UntilOfRow'
    BY <1>8, <2>1, <2>2, WindowsKept DEF Refuse, TypeOK, Calls, ControlInv, AnsweredDone, UntilOfRow
  <2> QED BY <1>8, <2>3, WindowsKept DEF Refuse, TypeOK, Calls, ControlInv, RowsSettled,
             LateStorable, AnsweredDone, BeforeSettled
<1>9. ASSUME NEW c \in Calls, Allow(c) PROVE Parts'
  BY <1>9, WindowsKept DEF Allow, TypeOK, Calls, ControlInv, RowsSettled,
     LateStorable, AnsweredDone, BeforeSettled, UntilOfRow
<1>10. ASSUME NEW c \in Calls, AllowOnError(c) PROVE Parts'
  BY <1>10, WindowsKept DEF AllowOnError, TypeOK, Calls, ControlInv, RowsSettled,
     LateStorable, AnsweredDone, BeforeSettled, UntilOfRow
<1>11. ASSUME Crash PROVE Parts'
  BY <1>11, WindowsKept DEF Crash, InFlight, TypeOK, Calls, ControlInv, RowsSettled,
     LateStorable, AnsweredDone, BeforeSettled, UntilOfRow
<1>12. ASSUME Tick PROVE Parts'
  BY <1>12, WindowsKept DEF Tick, TypeOK, Calls, ControlInv, RowsSettled,
     LateStorable, AnsweredDone, BeforeSettled, UntilOfRow
<1>13. ASSUME UNCHANGED vars PROVE Parts'
  BY <1>13, WindowsKept DEF vars, TypeOK, Calls, ControlInv, RowsSettled,
     LateStorable, AnsweredDone, BeforeSettled, UntilOfRow
<1> HIDE DEF Parts
<1>p. Parts'
  BY <1>1, <1>2, <1>3, <1>4, <1>5, <1>6, <1>7, <1>8, <1>9, <1>10, <1>11, <1>12, <1>13
     DEF Next, Handle
<1> QED BY <1>p DEF Parts, ControlInv

-----------------------------------------------------------------------------
\* What the checks answer.

\* A step leaves the answers that were given alone, and the times that were read.
SettledStep ==
  /\ UNCHANGED task
  /\ \A c \in Calls : pc[c] # "idle" => asOf'[c] = asOf[c]
  /\ \A k \in Checks : pc[k] # "idle" => before'[k] = before[k]
  /\ \A k \in Checks : reply[k] = "200" => until'[k] = until[k] /\ (k \in failed' <=> k \in failed)
  /\ \A k \in Checks : reply'[k] = "200" /\ reply[k] # "200" => Refuse(k) \/ Allow(k) \/ AllowOnError(k)

LEMMA StepSettled ==
  RestrictionsInv /\ [Next]_vars => SettledStep
<1> SUFFICES ASSUME RestrictionsInv, [Next]_vars PROVE SettledStep
  OBVIOUS
<1>t. TypeOK /\ LateStorable /\ AnsweredDone /\ Applies \cap Checks = {}
  BY ConstantsAssumption DEF RestrictionsInv, ControlInv
<1> USE <1>t DEF Goto, Answer, table, answers, SettledStep, TypeOK, Calls, LateStorable, AnsweredDone
<1>1. ASSUME NEW c \in Calls, ComputeWindow(c) PROVE SettledStep
  BY <1>1 DEF ComputeWindow
<1>2. ASSUME NEW c \in Calls, InsertRestriction(c) PROVE SettledStep
  BY <1>2 DEF InsertRestriction
<1>3. ASSUME NEW c \in Calls, InsertFails(c) PROVE SettledStep
  BY <1>3 DEF InsertFails
<1>4. ASSUME NEW c \in Calls, InsertTimesOut(c) PROVE SettledStep
  BY <1>4 DEF InsertTimesOut
<1>5. ASSUME NEW c \in Calls, CommitLate(c) PROVE SettledStep
  BY <1>5 DEF CommitLate
<1>6. ASSUME NEW c \in Calls, AppendAudit(c) PROVE SettledStep
  BY <1>6 DEF AppendAudit
<1>7. ASSUME NEW c \in Calls, ReadClock(c) PROVE SettledStep
  BY <1>7 DEF ReadClock
<1>8. ASSUME NEW c \in Calls, Refuse(c) PROVE SettledStep
  <2>1. \A k \in Checks \ {c} : reply'[k] = reply[k] /\ until'[k] = until[k]
    BY <1>8 DEF Refuse
  <2> QED BY <1>8, <2>1 DEF Refuse
<1>9. ASSUME NEW c \in Calls, Allow(c) PROVE SettledStep
  <2>1. \A k \in Checks \ {c} : reply'[k] = reply[k]
    BY <1>9 DEF Allow
  <2> QED BY <1>9, <2>1 DEF Allow
<1>10. ASSUME NEW c \in Calls, AllowOnError(c) PROVE SettledStep
  <2>1. \A k \in Checks \ {c} : reply'[k] = reply[k]
    BY <1>10 DEF AllowOnError
  <2> QED BY <1>10, <2>1 DEF AllowOnError
<1>11. ASSUME Crash PROVE SettledStep
  BY <1>11 DEF Crash
<1>12. ASSUME Tick PROVE SettledStep
  BY <1>12 DEF Tick
<1>13. ASSUME UNCHANGED vars PROVE SettledStep
  BY <1>13 DEF vars
<1> QED BY <1>1, <1>2, <1>3, <1>4, <1>5, <1>6, <1>7, <1>8, <1>9, <1>10, <1>11, <1>12,
           <1>13 DEF Next, Handle

\* A check that is allowed found no row whose window ends after its clock.
LEMMA StepBinds ==
  RestrictionsInv /\ [Next]_vars => RestrictionBinds'
<1> SUFFICES ASSUME RestrictionsInv, [Next]_vars,
                    NEW k \in Checks, Allowing(k)', k \notin failed',
                    NEW a \in Applies, Known(a, k)', (Asked(a) * Hour)' < MaxDuration
             PROVE  (asOf[a] + Asked(a) * Hour <= asOf[k] + 1)'
  BY DEF RestrictionBinds
<1>1. TypeOK /\ ControlInv /\ SettledStep /\ k \in Calls /\ a \in Calls
  BY StepSettled DEF RestrictionsInv, Calls
<1>2. Asked(a)' = Asked(a)
  BY <1>1 DEF SettledStep, Asked
<1>3. pc[k] # "idle" /\ before'[k] = before[k] /\ asOf'[k] = asOf[k]
  BY <1>1 DEF SettledStep, Allowing, ControlInv, AnsweredDone, Refuse, Allow, AllowOnError
<1>4. a \in rows /\ pc[a] # "idle" /\ asOf'[a] = asOf[a]
  BY <1>1, <1>3 DEF Known, ControlInv, BeforeSettled, RowsSettled, SettledStep
<1>5. Known(a, k)
  BY <1>1, <1>3 DEF Known, SettledStep
<1>6. CASE reply[k] = "200"
  <2>1. Allowing(k) /\ k \notin failed
    BY <1>1, <1>6 DEF Allowing, Refused, SettledStep
  <2> QED BY <1>2, <1>3, <1>4, <1>5, <2>1 DEF RestrictionsInv, RestrictionBinds
<1>7. CASE reply[k] # "200"
  <2>1. Refuse(k) \/ Allow(k) \/ AllowOnError(k)
    BY <1>1, <1>7 DEF SettledStep, Allowing
  <2>2. ~ AllowOnError(k)
    BY DEF AllowOnError
  <2>3. ~ Refuse(k)
    <3> SUFFICES ASSUME Refuse(k) PROVE FALSE
      OBVIOUS
    <3>1. PICK b \in rows : until'[k] = WindowEnd(b)
      BY <1>1 DEF Refuse, Ends, TypeOK
    <3>2. WindowEnd(b) \in MinStamp .. MaxStamp
      BY <1>1 DEF ControlInv, RowsSettled, Storable
    <3>3. MinStamp = 3 /\ MaxStamp \in Int
      BY ConstantsAssumption DEF MinStamp
    <3>4. until'[k] # 0
      BY <3>1, <3>2, <3>3
    <3> QED BY <3>4 DEF Allowing, Refused, Allowed
  <2>4. Ends(k) = {}
    BY <2>1, <2>2, <2>3 DEF Allow
  <2>5. ~ (WindowEnd(a) > asOf[k])
    BY <1>4, <1>5, <2>4 DEF Ends, Binds, Known
  <2>6. asOf[k] \in Nat /\ asOf[a] \in Nat
    <3>1. asOf[k] \in MinTime .. MaxTime /\ asOf[a] \in MinTime .. MaxTime
      BY <1>1 DEF TypeOK
    <3> QED BY <3>1, ConstantsAssumption
  <2>7. asOf[a] + Asked(a) * Hour <= WindowEnd(a) + 1
    BY <1>1, <1>2, WindowEndType
  <2> QED BY <1>1, <1>2, <1>3, <1>4, <2>5, <2>6, <2>7, WindowEndType
<1> QED BY <1>6, <1>7

\* The row behind an earlier refusal is still there for a later check to find.
LEMMA StepStands ==
  RestrictionsInv /\ [Next]_vars => RefusalStands'
<1> SUFFICES ASSUME RestrictionsInv, [Next]_vars, NEW k1 \in Checks, NEW k2 \in Checks,
                    k1 \in before'[k2], task'[k1].subject = task'[k2].subject,
                    reply'[k2] = "200", k2 \notin failed'
             PROVE  until'[k1] <= asOf'[k2] \/ until'[k1] <= until'[k2]
  BY DEF RefusalStands
<1>1. TypeOK /\ ControlInv /\ SettledStep /\ k1 \in Calls /\ k2 \in Calls
  BY StepSettled DEF RestrictionsInv, Calls
<1>2. pc[k2] # "idle" /\ before'[k2] = before[k2] /\ asOf'[k2] = asOf[k2]
  BY <1>1 DEF SettledStep, ControlInv, AnsweredDone, Refuse, Allow, AllowOnError
<1>3. k1 \in before[k2] /\ task[k1].subject = task[k2].subject
  BY <1>1, <1>2 DEF SettledStep
<1>4. reply[k1] = "200"
  BY <1>1, <1>3, ConstantsAssumption DEF ControlInv, BeforeSettled, AnsweredDone, TypeOK
<1>5. until'[k1] = until[k1]
  BY <1>1, <1>4 DEF SettledStep
<1>6. CASE reply[k2] = "200"
  <2>1. until'[k2] = until[k2] /\ k2 \notin failed
    BY <1>1, <1>6 DEF SettledStep
  <2> QED BY <1>2, <1>3, <1>5, <1>6, <2>1 DEF RestrictionsInv, RefusalStands
<1>7. CASE reply[k2] # "200"
  <2>1. Refuse(k2) \/ Allow(k2)
    BY <1>1, <1>7 DEF SettledStep, AllowOnError
  <2>2. asOf[k2] \in Nat /\ until[k1] \in Int
    <3>1. asOf[k2] \in MinTime .. MaxTime
      BY <1>1 DEF TypeOK
    <3> QED BY <1>1, <3>1, ConstantsAssumption DEF TypeOK
  <2>3. CASE until[k1] = Allowed
    BY <1>2, <1>5, <2>2, <2>3 DEF Allowed
  <2>4. CASE until[k1] # Allowed /\ ~ (until[k1] <= asOf[k2])
    <3>1. PICK a \in rows : /\ task[a].subject = task[k1].subject /\ task[a].kind = Purchase
                            /\ WindowEnd(a) = until[k1]
      BY <1>1, <2>4 DEF ControlInv, UntilOfRow
    <3>2. until[k1] \in Ends(k2)
      BY <1>3, <2>2, <2>4, <3>1 DEF Ends, Binds
    <3>3. Refuse(k2)
      BY <2>1, <3>2 DEF Allow
    <3>4. PICK e : /\ \A f \in Ends(k2) : f <= e
                   /\ until' = [until EXCEPT ![k2] = e]
      BY <3>3 DEF Refuse, First
    <3>5. until'[k2] = e
      BY <1>1, <3>4 DEF TypeOK
    <3> QED BY <1>5, <3>2, <3>4, <3>5
  <2> QED BY <1>2, <1>5, <2>3, <2>4
<1> QED BY <1>6, <1>7

-----------------------------------------------------------------------------
THEOREM RestrictionsInvariant == Spec => []RestrictionsInv
<1>1. RestrictionsInv /\ [Next]_vars => RestrictionsInv'
  BY StepType, StepControl, StepBinds, StepStands DEF RestrictionsInv, ControlInv
<1> QED BY <1>1, InvInit, PTL DEF Spec

\* The variables keep their types; a record in the audit trail is of a row.
THEOREM TypeCorrect == Spec => []TypeOK
<1>1. RestrictionsInv => TypeOK
  BY DEF RestrictionsInv
<1> QED BY <1>1, RestrictionsInvariant, PTL

\* A restriction answered 201 is not lost on later checks, whatever else is
\* applied, fails, commits late or crashes (check168HourRestriction).
THEOREM RestrictionsBind == Spec => []RestrictionBinds
<1>1. RestrictionsInv => RestrictionBinds
  BY DEF RestrictionsInv
<1> QED BY <1>1, RestrictionsInvariant, PTL

\* No candidate is refused for another's restriction, another institution's or
\* for longer than was asked for (check168HourRestriction).
THEOREM RefusalsAreJustified == Spec => []RefusalsJustified
<1>1. RestrictionsInv => RefusalsJustified
  <2> SUFFICES ASSUME RestrictionsInv, NEW k \in Checks, Refused(k)
               PROVE  \E a \in Applies :
                        /\ pc[a] # "idle" /\ task[a].subject = task[k].subject
                        /\ task[a].kind = Purchase
                        /\ asOf[k] <= asOf[a] + Asked(a) * Hour
    BY DEF RefusalsJustified
  <2>1. PICK a \in rows : /\ task[a].subject = task[k].subject /\ task[a].kind = Purchase
                          /\ WindowEnd(a) = until[k] /\ until[k] > asOf[k]
    BY DEF RestrictionsInv, ControlInv, UntilOfRow, Refused
  <2>2. a \in Applies /\ pc[a] # "idle"
    BY DEF RestrictionsInv, TypeOK, ControlInv, RowsSettled
  <2>3. asOf[k] \in Nat /\ asOf[a] \in Nat
    <3>1. asOf[k] \in MinTime .. MaxTime /\ asOf[a] \in MinTime .. MaxTime
      BY <2>2 DEF RestrictionsInv, TypeOK, Calls
    <3> QED BY <3>1, ConstantsAssumption
  <2>4. /\ WindowEnd(a) \in Int /\ Asked(a) * Hour \in Nat
        /\ WindowEnd(a) <= asOf[a] + Asked(a) * Hour + 1
    BY <2>2, WindowEndType DEF RestrictionsInv
  <2>5. asOf[k] <= asOf[a] + Asked(a) * Hour
    BY <2>1, <2>3, <2>4
  <2> QED BY <2>1, <2>2, <2>5
<1> QED BY <1>1, RestrictionsInvariant, PTL

\* What a refusal says of when the candidate may come back stays true.
THEOREM RefusalsStand == Spec => []RefusalStands
<1>1. RestrictionsInv => RefusalStands
  BY DEF RestrictionsInv
<1> QED BY <1>1, RestrictionsInvariant, PTL
=============================================================================
