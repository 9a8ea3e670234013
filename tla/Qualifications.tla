--------------------------- MODULE Qualifications ---------------------------
(***************************************************************************)
(* The lifecycle of a qualification: complianceCreateQualification,        *)
(* complianceExpireQualifications, complianceReactivateQualification, the  *)
(* list, and the check on arrival that the router runs before every route. *)
(*                                                                         *)
(* Each handler reads the UTC date and then sends SQL statements that      *)
(* commit on their own, so midnight and other handlers may come between.   *)
(* Time is counted in days, the unit of expiry_date.  A date arrives as    *)
(* text: "iso" is what time.Parse("2006-01-02") reads, "loose" what only   *)
(* MySQL reads as a date (2026-1-5), "bad" what neither does, the empty    *)
(* text of an absent expiryDate included.                                  *)
(***************************************************************************)
EXTENDS Integers, FiniteSets

CONSTANTS
  Creates,       \* calls of POST /compliance/qualifications
  Sweeps,        \* calls of POST /compliance/qualifications/expire
  Renewals,      \* calls of POST /compliance/qualifications/reactivate
  Lists,         \* calls of GET /compliance/qualifications
  Institutions,  \* values of scope.InstitutionID
  LastDay,       \* bound on the clock and on expiry dates
  Faults         \* may statements fail or time out and the process crash?

ASSUME ConstantsAssumption ==
  /\ LastDay \in Nat
  /\ Faults \in BOOLEAN

VARIABLES
  today,     \* the UTC date
  inst,      \* call -> institution of its caller
  date,      \* create or reactivation -> the date in its body
  target,    \* reactivation -> the qualification it names
  pc,        \* call -> where its handler stands
  status,    \* create -> the status it computed
  sweepDay,  \* sweep -> the date it read
  rows,      \* qualifications in the table, named by their create calls
  row,       \* qualification -> its expiry_date and status
  trail,     \* calls whose record is in audit_records
  reply,     \* call -> status code it answered, or "none"
  stale,     \* history: list -> qualifications it showed active past their date
  writer     \* history: qualification -> call that last inserted or renewed it,
             \* the day it did, the status it replaced, and the latest date of a
             \* sweep that took effect since

vars == <<today, inst, date, target, pc, status, sweepDay, rows, row, trail,
          reply, stale, writer>>
given == <<inst, date, target>>
table == <<rows, row>>
history == <<stale, writer>>

Days == 0 .. LastDay
Calls == Creates \cup Sweeps \cup Renewals \cup Lists
Statuses == {"active", "expired"}
Dates == [day : Days, form : {"iso", "loose"}] \cup {[day |-> 0, form |-> "bad"]}
Never == -1

InFlight == {c \in Calls : pc[c] \notin {"idle", "late", "done"}}

TypeOK ==
  /\ today \in Days
  /\ inst \in [Calls -> Institutions]
  /\ date \in [Creates \cup Renewals -> Dates]
  /\ target \in [Renewals -> Creates]
  /\ pc \in [Calls -> {"idle", "write", "audit", "late", "done"}]
  /\ status \in [Creates -> Statuses]
  /\ sweepDay \in [Sweeps -> Days]
  /\ rows \subseteq Creates
  /\ row \in [Creates -> [expiry : Days, status : Statuses]]
  /\ trail \subseteq Calls
  /\ reply \in [Calls -> {"none", "200", "201", "400", "404", "500"}]
  /\ stale \in [Lists -> SUBSET Creates]
  /\ writer \in [Creates -> [by : Creates \cup Renewals, on : Days, was : Statuses,
                           swept : Days \cup {Never}]]

Init ==
  /\ today = 0
  /\ inst \in [Calls -> Institutions]
  /\ date \in [Creates \cup Renewals -> Dates]
  /\ target \in [Renewals -> Creates]
  /\ pc = [c \in Calls |-> "idle"]
  /\ status = [c \in Creates |-> "active"]
  /\ sweepDay = [j \in Sweeps |-> 0]
  /\ rows = {}
  /\ row = [q \in Creates |-> [expiry |-> 0, status |-> "active"]]
  /\ trail = {}
  /\ reply = [c \in Calls |-> "none"]
  /\ stale = [v \in Lists |-> {}]
  /\ writer = [q \in Creates |-> [by |-> q, on |-> 0, was |-> "active", swept |-> Never]]

Goto(c, step) == pc' = [pc EXCEPT ![c] = step]
Answer(c, code) == Goto(c, "done") /\ reply' = [reply EXCEPT ![c] = code]

\* complianceCheckExpiryOnArrival runs before RequireAuth has put a scope into
\* the context, so getScope fails, and it passes every call on unchanged.
ScopeOnArrival == FALSE

Overdue(q, day) == row[q].expiry < day
Active(q) == q \in rows /\ row[q].status = "active"

\* Mutants: the sweep takes the day of expiry too, or leaves a day of grace.
AfterSweepEarly(q, i, day) ==
  IF inst[q] = i /\ Active(q) /\ row[q].expiry <= day
  THEN [row[q] EXCEPT !.status = "expired"]
  ELSE row[q]
AfterSweepLate(q, i, day) ==
  IF inst[q] = i /\ Active(q) /\ Overdue(q, day - 1)
  THEN [row[q] EXCEPT !.status = "expired"]
  ELSE row[q]

\* What UPDATE ... WHERE institution_id = ? AND expiry_date < ? AND
\* status = 'active' leaves of the row of q.
AfterSweep(q, i, day) ==
  IF inst[q] = i /\ Active(q) /\ Overdue(q, day)
  THEN [row[q] EXCEPT !.status = "expired"]
  ELSE row[q]

ExpireOverdue(i, day) ==
  /\ row' = [q \in Creates |-> AfterSweep(q, i, day)]
  /\ writer' = [q \in Creates |-> IF inst[q] = i /\ day > writer[q].swept
                                  THEN [writer[q] EXCEPT !.swept = day]
                                  ELSE writer[q]]

\* The table part of a call's arrival at any route.
Arrival(c) ==
  IF ScopeOnArrival THEN ExpireOverdue(inst[c], today)
                    ELSE UNCHANGED <<row, writer>>

-----------------------------------------------------------------------------
\* POST /compliance/qualifications

\* checkQualificationExpiry: the day of expiry itself counts as expired; text
\* that time.Parse does not read never expires.
ExpiryPassed(d) == d.form = "iso" /\ today >= d.day

\* Mutant: a qualification in its last days gets the status api-spec.md lists.
StatusOrSoon(d) == IF ExpiryPassed(d) THEN "expiring_soon" ELSE "active"

StatusFor(d) == IF ExpiryPassed(d) THEN "expired" ELSE "active"

\* The candidate was found; the status follows from the clock.
ComputeStatus(q) ==
  /\ q \in Creates /\ pc[q] = "idle"
  /\ status' = [status EXCEPT ![q] = StatusFor(date[q])]
  /\ Goto(q, "write")
  /\ Arrival(q)
  /\ UNCHANGED <<today, given, sweepDay, rows, trail, reply, stale>>

CandidateNotFound(q) ==
  /\ q \in Creates /\ pc[q] = "idle"
  /\ Answer(q, "400")
  /\ Arrival(q)
  /\ UNCHANGED <<today, given, status, sweepDay, rows, trail, stale>>

WriteNew(q) ==
  /\ rows' = rows \cup {q}
  /\ row' = [row EXCEPT ![q] = [expiry |-> date[q].day, status |-> status[q]]]
  /\ writer' = [writer EXCEPT ![q] = [by |-> q, on |-> today, was |-> "active", swept |-> Never]]

-----------------------------------------------------------------------------
\* POST /compliance/qualifications/expire

StartSweep(j) ==
  /\ j \in Sweeps /\ pc[j] = "idle"
  /\ sweepDay' = [sweepDay EXCEPT ![j] = today]
  /\ Goto(j, "write")
  /\ Arrival(j)
  /\ UNCHANGED <<today, given, status, rows, trail, reply, stale>>

-----------------------------------------------------------------------------
\* POST /compliance/qualifications/reactivate

Reactivable(v) ==
  LET q == target[v]
  IN  q \in rows /\ inst[q] = inst[v] /\ row[q].status = "expired"

\* SELECT status: only an expired qualification goes on to the UPDATE.
ReadStatus(v) ==
  /\ v \in Renewals /\ pc[v] = "idle"
  /\ Reactivable(v)
  /\ Goto(v, "write")
  /\ Arrival(v)
  /\ UNCHANGED <<today, given, status, sweepDay, rows, trail, reply, stale>>

\* Not there, of another institution, not expired, or the SELECT failed.
RefuseReactivation(v) ==
  /\ v \in Renewals /\ pc[v] = "idle"
  /\ \/ ~ Reactivable(v) /\ \E code \in {"400", "404"} : Answer(v, code)
     \/ Faults /\ Answer(v, "404")
  /\ Arrival(v)
  /\ UNCHANGED <<today, given, status, sweepDay, rows, trail, stale>>

\* UPDATE ... SET status = 'active', expiry_date = ? WHERE id = ? AND
\* institution_id = ?, whatever the status is by now and whatever the new date.
WriteRenewal(v) ==
  /\ row' = [row EXCEPT ![target[v]] = [expiry |-> date[v].day, status |-> "active"]]
  /\ writer' = [writer EXCEPT ![target[v]] =
                   [by |-> v, on |-> today, was |-> row[target[v]].status, swept |-> Never]]
  /\ UNCHANGED rows

-----------------------------------------------------------------------------
\* The writing statement of the three handlers, and their audit record.

Unreadable(c) == c \notin Sweeps /\ date[c].form = "bad"

Write(c) ==
  \/ c \in Creates /\ WriteNew(c)
  \/ c \in Sweeps /\ ExpireOverdue(inst[c], sweepDay[c]) /\ UNCHANGED rows
  \/ c \in Renewals /\ WriteRenewal(c)

Execute(c) ==
  /\ pc[c] = "write"
  /\ ~ Unreadable(c)
  /\ Write(c)
  /\ Goto(c, "audit")
  /\ UNCHANGED <<today, given, status, sweepDay, trail, reply, stale>>

\* A date MySQL cannot read, in its strict mode, or a failed statement.
ExecuteFails(c) ==
  /\ pc[c] = "write"
  /\ Unreadable(c) \/ Faults
  /\ Answer(c, "500")
  /\ UNCHANGED <<today, given, status, sweepDay, table, trail, history>>

\* The context of the handler expires; the statement may still commit.
ExecuteTimesOut(c) ==
  /\ Faults
  /\ pc[c] = "write"
  /\ ~ Unreadable(c)
  /\ Goto(c, "late")
  /\ reply' = [reply EXCEPT ![c] = "500"]
  /\ UNCHANGED <<today, given, status, sweepDay, table, trail, history>>

CommitLate(c) ==
  /\ pc[c] = "late"
  /\ Write(c)
  /\ Goto(c, "done")
  /\ UNCHANGED <<today, given, status, sweepDay, trail, reply, stale>>

\* _ = store.AppendAudit(auditRec): appended, or lost.
AppendAudit(c) ==
  /\ pc[c] = "audit"
  /\ trail' = trail \cup {c} \/ (Faults /\ UNCHANGED trail)
  /\ Answer(c, IF c \in Creates THEN "201" ELSE "200")
  /\ UNCHANGED <<today, given, status, sweepDay, table, history>>

-----------------------------------------------------------------------------
\* GET /compliance/qualifications shows the stored status: the driver hands
\* expiry_date over with a time of day, which checkQualificationExpiry cannot
\* read, so the test in the list never finds an expiry passed.
ListQualifications(v) ==
  /\ v \in Lists /\ pc[v] = "idle"
  /\ Arrival(v)
  /\ stale' = [stale EXCEPT ![v] =
                 {q \in rows : /\ inst[q] = inst[v]
                               /\ row'[q].status = "active" /\ row'[q].expiry < today}]
  /\ Answer(v, "200")
  /\ UNCHANGED <<today, given, status, sweepDay, rows, trail>>

-----------------------------------------------------------------------------
Crash ==
  /\ Faults
  /\ InFlight # {}
  /\ pc' = [c \in Calls |->
              IF c \in InFlight
              THEN IF pc[c] = "write" /\ ~ Unreadable(c) THEN "late" ELSE "done"
              ELSE pc[c]]
  /\ UNCHANGED <<today, given, status, sweepDay, table, trail, reply, history>>

NextDay ==
  /\ today < LastDay
  /\ today' = today + 1
  /\ UNCHANGED <<given, pc, status, sweepDay, table, trail, reply, history>>

Handle(c) ==
  \/ ComputeStatus(c) \/ CandidateNotFound(c)
  \/ StartSweep(c)
  \/ ReadStatus(c) \/ RefuseReactivation(c)
  \/ ListQualifications(c)
  \/ Execute(c) \/ ExecuteFails(c) \/ ExecuteTimesOut(c) \/ CommitLate(c)
  \/ AppendAudit(c)

Next == NextDay \/ Crash \/ \E c \in Calls : Handle(c)

Spec == Init /\ [][Next]_vars

-----------------------------------------------------------------------------
\* A qualification is marked expired only once its date has come, and on the
\* very day only if it was created expired: no sweep and no interleaving with a
\* reactivation leaves one expired that is still valid.
NeverExpiredEarly ==
  \A q \in rows :
    row[q].status = "expired" =>
      \/ row[q].expiry < today
      \/ row[q].expiry = today /\ status[q] = "expired" /\ writer[q].by = q

\* A qualification that entered the table active, by its creation or by a
\* reactivation, is expired exactly if it is past the date of a sweep of its own
\* institution that took effect since, also when sweeps commit late or out of the
\* order in which they read the date.
SweepsExact ==
  \A q \in rows :
    writer[q].by # q \/ status[q] = "active" =>
      (row[q].status = "expired" <=> Overdue(q, writer[q].swept))

\* A reactivation replaces the date of an expired qualification, never that of
\* an active one (complianceReactivateQualification, "Only expired
\* qualifications can be reactivated.").
ReactivatesOnlyExpired ==
  \A q \in rows : writer[q].by \in Renewals => writer[q].was = "expired"

\* What the README promises: on arrival of a call the expiry dates are checked,
\* so no call is shown an active qualification past its date.
CheckedOnArrival == \A v \in Lists : stale[v] = {}

\* What design.md promises of reactivation: the new date is validated.
ReactivatedIsValid ==
  \A q \in rows : Active(q) /\ writer[q].by \in Renewals => ~ Overdue(q, writer[q].on)
=============================================================================
