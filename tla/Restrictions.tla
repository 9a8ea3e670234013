---------------------------- MODULE Restrictions ----------------------------
(***************************************************************************)
(* Purchase restrictions of candidates: complianceApplyRestriction, and    *)
(* complianceCheckRestriction with check168HourRestriction.                *)
(*                                                                         *)
(* A restriction is a row that binds until its purchase_window_end;        *)
(* nothing withdraws one.  Applying reads the clock, INSERTs and appends   *)
(* its audit record; a check reads the clock and then queries, and what    *)
(* goes wrong in the query allows the purchase.  Time is in thirds of a    *)
(* second: a TIMESTAMP keeps a third one way and two thirds the other.     *)
(***************************************************************************)
EXTENDS Integers, FiniteSets

CONSTANTS
  Applies,       \* calls of POST /compliance/restrictions
  Checks,        \* calls of POST /compliance/restrictions/check
  Institutions,  \* values of scope.InstitutionID
  Candidates,    \* values of candidateId
  WindowHours,   \* values of windowHours in the body
  Hour,          \* the length of an hour
  DefaultHours,  \* 168
  MaxDuration,   \* longest time.Duration
  MaxStamp,      \* last TIMESTAMP
  MinTime, MaxTime,  \* bounds on the clock
  Faults         \* may statements fail or time out and the process crash?

ASSUME ConstantsAssumption ==
  /\ Applies \cap Checks = {}
  /\ WindowHours \subseteq Int
  /\ Hour \in Nat \ {0} /\ DefaultHours \in Nat \ {0} /\ MaxDuration \in Nat \ {0}
  /\ MaxStamp \in Nat /\ MinTime \in Nat /\ MaxTime \in Nat /\ MinTime <= MaxTime
  /\ Faults \in BOOLEAN

VARIABLES
  now,     \* the wall clock
  task,    \* call -> its caller's institution and its body
  pc,      \* call -> where its handler stands
  asOf,    \* call -> the time its handler read
  rows,    \* restrictions in the table, named by the calls that applied them
  trail,   \* applications whose record is in audit_records
  reply,   \* call -> status code it answered, or "none"
  until,   \* check -> NextEligibleAt of its answer, Allowed if there is none
  before,  \* history: check -> calls that were answered when it read the clock
  failed   \* history: checks whose query failed

vars == <<now, task, pc, asOf, rows, trail, reply, until, before, failed>>
table == <<rows, trail>>
answers == <<until, before, failed>>

Calls == Applies \cup Checks
Purchase == "purchase_168h"
MinStamp == 3   \* a TIMESTAMP begins a second past the epoch
Allowed == 0
Stored(t) == 3 * ((t + 1) \div 3)

Subjects == [inst : Institutions, candidate : Candidates]
Tasks == [subject : Subjects, kind : {Purchase, "other"}, hours : WindowHours]

InFlight == {c \in Calls : pc[c] \notin {"idle", "late", "done"}}
Answered == {c \in Calls : reply[c] \in {"200", "201"}}

TypeOK ==
  /\ now \in MinTime .. MaxTime
  /\ task \in [Calls -> Tasks]
  /\ pc \in [Calls -> {"idle", "insert", "audit", "query", "late", "done"}]
  /\ asOf \in [Calls -> MinTime .. MaxTime]
  /\ rows \subseteq Applies
  /\ trail \subseteq rows
  /\ reply \in [Calls -> {"none", "200", "201", "500"}]
  /\ until \in [Checks -> Int]
  /\ before \in [Checks -> SUBSET Calls]
  /\ failed \subseteq Checks

Init ==
  /\ now = MinTime
  /\ task \in [Calls -> Tasks]
  /\ pc = [c \in Calls |-> "idle"]
  /\ asOf = [c \in Calls |-> MinTime]
  /\ rows = {}
  /\ trail = {}
  /\ reply = [c \in Calls |-> "none"]
  /\ until = [k \in Checks |-> Allowed]
  /\ before = [k \in Checks |-> {}]
  /\ failed = {}

Goto(c, step) == pc' = [pc EXCEPT ![c] = step]
Answer(c, code) == Goto(c, "done") /\ reply' = [reply EXCEPT ![c] = code]

-----------------------------------------------------------------------------
\* POST /compliance/restrictions

\* windowHours, 168 if it is zero or negative.
Asked(a) == IF task[a].hours <= 0 THEN DefaultHours ELSE task[a].hours

\* time.Duration(n) * time.Hour in an int64, which wraps.
Duration(n) == ((n * Hour + MaxDuration) % (2 * MaxDuration)) - MaxDuration

WindowEnd(a) == Stored(asOf[a] + Duration(Asked(a)))

\* windowStart := time.Now(); the window is computed from it.
ComputeWindow(a) ==
  /\ a \in Applies /\ pc[a] = "idle"
  /\ asOf' = [asOf EXCEPT ![a] = now]
  /\ Goto(a, "insert")
  /\ UNCHANGED <<now, task, table, reply, answers>>

Storable(a) == WindowEnd(a) \in MinStamp .. MaxStamp

\* Mutant: a new restriction takes the place of the ones before it.
InsertRestrictionAlone(a) ==
  /\ pc[a] = "insert"
  /\ Storable(a)
  /\ rows' = {b \in rows : task[b].subject # task[a].subject} \cup {a}
  /\ trail' = trail \cap rows'
  /\ Goto(a, "audit")
  /\ UNCHANGED <<now, task, asOf, reply, answers>>

InsertRestriction(a) ==
  /\ pc[a] = "insert"
  /\ Storable(a)
  /\ rows' = rows \cup {a}
  /\ Goto(a, "audit")
  /\ UNCHANGED <<now, task, asOf, trail, reply, answers>>

\* The end of the window is no TIMESTAMP, or the statement failed.
InsertFails(a) ==
  /\ pc[a] = "insert"
  /\ ~ Storable(a) \/ Faults
  /\ Answer(a, "500")
  /\ UNCHANGED <<now, task, asOf, table, answers>>

InsertTimesOut(a) ==
  /\ Faults
  /\ pc[a] = "insert" /\ Storable(a)
  /\ Goto(a, "late")
  /\ reply' = [reply EXCEPT ![a] = "500"]
  /\ UNCHANGED <<now, task, asOf, table, answers>>

CommitLate(a) ==
  /\ pc[a] = "late"
  /\ rows' = rows \cup {a}
  /\ Goto(a, "done")
  /\ UNCHANGED <<now, task, asOf, trail, reply, answers>>

\* _ = store.AppendAudit(auditRec): appended, or lost.
AppendAudit(a) ==
  /\ pc[a] = "audit"
  /\ trail' = trail \cup {a} \/ (Faults /\ UNCHANGED trail)
  /\ Answer(a, "201")
  /\ UNCHANGED <<now, task, asOf, rows, answers>>

-----------------------------------------------------------------------------
\* POST /compliance/restrictions/check

\* time.Now() becomes an argument of the query.
ReadClock(k) ==
  /\ k \in Checks /\ pc[k] = "idle"
  /\ asOf' = [asOf EXCEPT ![k] = now]
  /\ before' = [before EXCEPT ![k] = Answered]
  /\ Goto(k, "query")
  /\ UNCHANGED <<now, task, table, reply, until, failed>>

\* Mutant: the query has lost its institution.
BindsAnywhere(a, k) ==
  /\ task[a].subject.candidate = task[k].subject.candidate
  /\ task[a].kind = Purchase
  /\ WindowEnd(a) > asOf[k]

\* WHERE candidate_id = ? AND institution_id = ? AND restriction_type =
\* 'purchase_168h' AND purchase_window_end > ?
Binds(a, k) ==
  /\ task[a].subject = task[k].subject
  /\ task[a].kind = Purchase
  /\ WindowEnd(a) > asOf[k]

Ends(k) == {WindowEnd(a) : a \in {b \in rows : Binds(b, k)}}

\* Mutant: the query has lost its DESC.
FirstOfAscending(k, e) == e \in Ends(k) /\ \A f \in Ends(k) : e <= f

\* ORDER BY purchase_window_end DESC LIMIT 1
First(k, e) == e \in Ends(k) /\ \A f \in Ends(k) : f <= e

Refuse(k) ==
  /\ pc[k] = "query"
  /\ \E e \in Ends(k) : First(k, e) /\ until' = [until EXCEPT ![k] = e]
  /\ Answer(k, "200")
  /\ UNCHANGED <<now, task, asOf, table, before, failed>>

Allow(k) ==
  /\ pc[k] = "query"
  /\ Ends(k) = {}
  /\ Answer(k, "200")
  /\ UNCHANGED <<now, task, asOf, table, answers>>

\* The query failed or timed out: allowed.
AllowOnError(k) ==
  /\ Faults
  /\ pc[k] = "query"
  /\ failed' = failed \cup {k}
  /\ Answer(k, "200")
  /\ UNCHANGED <<now, task, asOf, table, until, before>>

-----------------------------------------------------------------------------
Crash ==
  /\ Faults
  /\ InFlight # {}
  /\ pc' = [c \in Calls |->
              IF c \in InFlight
              THEN IF pc[c] = "insert" /\ Storable(c) THEN "late" ELSE "done"
              ELSE pc[c]]
  /\ UNCHANGED <<now, task, asOf, table, reply, answers>>

Tick ==
  /\ now < MaxTime
  /\ now' = now + 1
  /\ UNCHANGED <<task, pc, asOf, table, reply, answers>>

Handle(c) ==
  \/ ComputeWindow(c) \/ InsertRestriction(c) \/ InsertFails(c) \/ InsertTimesOut(c)
  \/ CommitLate(c) \/ AppendAudit(c)
  \/ ReadClock(c) \/ Refuse(c) \/ Allow(c) \/ AllowOnError(c)

Next == Tick \/ Crash \/ \E c \in Calls : Handle(c)

Spec == Init /\ [][Next]_vars

-----------------------------------------------------------------------------
Refused(k) == until[k] # Allowed
Allowing(k) == reply[k] = "200" /\ ~ Refused(k)

\* A purchase restriction on the subject of k that was applied before k arrived.
Known(a, k) ==
  a \in before[k] \cap Applies /\ task[a].subject = task[k].subject /\ task[a].kind = Purchase

\* A purchase restriction that was answered 201 keeps every later check of its
\* candidate refused for the hours asked for, save the rounding of its end,
\* whatever else is applied meanwhile, shorter restrictions included; checks
\* whose query fails and windows longer than a time.Duration are the exceptions.
RestrictionBinds ==
  \A k \in Checks : Allowing(k) /\ k \notin failed =>
    \A a \in Applies : Known(a, k) /\ Asked(a) * Hour < MaxDuration =>
      asOf[a] + Asked(a) * Hour <= asOf[k] + 1

\* A refusal stands until the time it names (NextEligibleAt): a later check that
\* is allowed, or names an earlier time, was made after that time, or failed.
RefusalStands ==
  \A k1, k2 \in Checks :
    /\ k1 \in before[k2] /\ task[k1].subject = task[k2].subject
    /\ reply[k2] = "200" /\ k2 \notin failed
    => until[k1] <= asOf[k2] \/ until[k1] <= until[k2]

\* A check is refused only for a purchase restriction of its candidate that a
\* caller of its institution applied, though perhaps one told 500, and no later
\* than the hours asked for, save the rounding.
RefusalsJustified ==
  \A k \in Checks : Refused(k) =>
    \E a \in Applies :
      /\ pc[a] # "idle" /\ task[a].subject = task[k].subject /\ task[a].kind = Purchase
      /\ asOf[k] <= asOf[a] + Asked(a) * Hour

\* What the README promises: a restriction is enforced, for the whole window and
\* also when the query fails.
AlwaysEnforced ==
  \A k \in Checks : Allowing(k) =>
    \A a \in Applies : Known(a, k) => asOf[a] + Asked(a) * Hour <= asOf[k]
=============================================================================
